---------------------------- MODULE Spec2Model ----------------------------
(***************************************************************************)
(* PharmaBot: the schedule materialization / regeneration engine, the dose *)
(* confirmation handlers and the device command relay of                   *)
(* app/api/routes.py, modelled as a state machine over the relational      *)
(* store.  Times are whole seconds of the fixed-offset local clock         *)
(* (app/utils/timezone.py); texts are sequences of one-character strings.  *)
(***************************************************************************)
EXTENDS Integers, Sequences, FiniteSets, TLC

(***************************************************************************)
(* Bounds of the model.                                                    *)
(***************************************************************************)
MaxTicks == 1
MaxRequests == 3
MaxRelayRequests == 6
MaxConcRequests == 5
MaxPrescriptions == 2
MaxMedicines == 4
MaxScheduleRows == 5
MaxCommands == 3
MaxInflight == 2
MaxRegistryRequests == 3
MaxRegistryTicks == 2

(***************************************************************************)
(* Program constants.                                                      *)
(***************************************************************************)
SecondsPerMinute == 60
SecondsPerHour == 3600
SecondsPerDay == 86400
DefaultDurationDays == 7
DeviceTimeout == 300
ListTimeoutMinutes == 5
UtcOffsetHours == 6
DeviceWindowDays == 7
DaysPerWeek == 7
DaysPerMonth == 30

\* Nullable values: None is the empty tuple, Some(x) holds x.
None == <<>>
Some(x) == <<x>>
Value(o) == o[1]

\* The registered accounts (rows of the users table): ids and usernames.
Users == {1, 2}

(***************************************************************************)
(* Texts.                                                                  *)
(***************************************************************************)
UpperCase == <<"A","B","C","D","E","F","G","H","I","J","K","L","M",
               "N","O","P","Q","R","S","T","U","V","W","X","Y","Z">>
LowerCase == <<"a","b","c","d","e","f","g","h","i","j","k","l","m",
               "n","o","p","q","r","s","t","u","v","w","x","y","z">>
DigitChars == <<"0","1","2","3","4","5","6","7","8","9">>

\* str.lower() on one character, and on a text.
LowerChar(c) ==
    IF \E i \in 1..26 : UpperCase[i] = c
    THEN LowerCase[CHOOSE i \in 1..26 : UpperCase[i] = c]
    ELSE c

Lower(s) == [i \in 1..Len(s) |-> LowerChar(s[i])]

\* The character U+00B2 (superscript two), written as one element of a text.
SuperscriptTwo == "^2"

\* A character int() reads as a decimal digit (ASCII digits).
IsDecimal(c) == \E i \in 1..10 : DigitChars[i] = c

\* str.isdigit() on one character: the decimal digits, and the digit
\* characters that are not decimal, of which the texts here hold U+00B2.
IsDigit(c) == IsDecimal(c) \/ c = SuperscriptTwo

DigitValue(c) == (CHOOSE i \in 1..10 : DigitChars[i] = c) - 1

\* `pat in s` for texts.
Contains(s, pat) ==
    \E i \in 1..(Len(s) - Len(pat) + 1) : SubSeq(s, i, i + Len(pat) - 1) = pat

\* ''.join(filter(str.isdigit, s)): the digits of s, in order.
DigitsOf(s) == SelectSeq(s, IsDigit)

\* int(text) for a text of ASCII digits.
RECURSIVE ParseInt(_)
ParseInt(s) ==
    IF Len(s) = 0 THEN 0
    ELSE 10 * ParseInt(SubSeq(s, 1, Len(s) - 1)) + DigitValue(s[Len(s)])

\* int(text) raises ValueError: a character of text is not a decimal digit.
IntRaises(s) == \E i \in 1..Len(s) : ~IsDecimal(s[i])

\* int(''.join(filter(str.isdigit, s)) or default)
DigitsOr(s, default) ==
    IF Len(DigitsOf(s)) = 0 THEN default ELSE ParseInt(DigitsOf(s))

(***************************************************************************)
(* parse_duration: duration text -> number of days.                        *)
(***************************************************************************)
parse_duration_WeekFirst(duration_str) ==
    LET s == Lower(duration_str) IN
    IF Contains(s, <<"w","e","e","k">>) THEN DigitsOr(s, 1) * DaysPerWeek
    ELSE IF Contains(s, <<"d","a","y">>) THEN DigitsOr(s, DefaultDurationDays)
    ELSE IF Contains(s, <<"m","o","n","t","h">>) THEN DigitsOr(s, 1) * DaysPerMonth
    ELSE DefaultDurationDays

parse_duration(duration_str) ==
    LET s == Lower(duration_str) IN
    IF Contains(s, <<"d","a","y">>) THEN DigitsOr(s, DefaultDurationDays)
    ELSE IF Contains(s, <<"w","e","e","k">>) THEN DigitsOr(s, 1) * DaysPerWeek
    ELSE IF Contains(s, <<"m","o","n","t","h">>) THEN DigitsOr(s, 1) * DaysPerMonth
    ELSE DefaultDurationDays

\* parse_duration raises: a branch that calls int() meets digits int()
\* does not read.
parse_duration_raises(duration_str) ==
    LET s == Lower(duration_str) IN
    /\ \/ Contains(s, <<"d","a","y">>)
       \/ Contains(s, <<"w","e","e","k">>)
       \/ Contains(s, <<"m","o","n","t","h">>)
    /\ IntRaises(DigitsOf(s))

(***************************************************************************)
(* extract_timing_from_frequency: the timing_map, in its insertion order.  *)
(***************************************************************************)
T0900 == <<"0","9",":","0","0">>
T2100 == <<"2","1",":","0","0">>
T0800 == <<"0","8",":","0","0">>
T1400 == <<"1","4",":","0","0">>
T2000 == <<"2","0",":","0","0">>
T1200 == <<"1","2",":","0","0">>
T1600 == <<"1","6",":","0","0">>
T0600 == <<"0","6",":","0","0">>
T1800 == <<"1","8",":","0","0">>
T0000 == <<"0","0",":","0","0">>
T2200 == <<"2","2",":","0","0">>

timing_map ==
    << [pattern |-> <<"o","n","c","e"," ","d","a","i","l","y">>,
        times |-> <<T0900>>],
       [pattern |-> <<"o","n","c","e"," ","a"," ","d","a","y">>,
        times |-> <<T0900>>],
       [pattern |-> <<"t","w","i","c","e"," ","d","a","i","l","y">>,
        times |-> <<T0900, T2100>>],
       [pattern |-> <<"t","w","i","c","e"," ","a"," ","d","a","y">>,
        times |-> <<T0900, T2100>>],
       [pattern |-> <<"t","h","r","e","e"," ","t","i","m","e","s"," ","d","a","i","l","y">>,
        times |-> <<T0800, T1400, T2000>>],
       [pattern |-> <<"t","h","r","e","e"," ","t","i","m","e","s"," ","a"," ","d","a","y">>,
        times |-> <<T0800, T1400, T2000>>],
       [pattern |-> <<"f","o","u","r"," ","t","i","m","e","s"," ","d","a","i","l","y">>,
        times |-> <<T0800, T1200, T1600, T2000>>],
       [pattern |-> <<"f","o","u","r"," ","t","i","m","e","s"," ","a"," ","d","a","y">>,
        times |-> <<T0800, T1200, T1600, T2000>>],
       [pattern |-> <<"e","v","e","r","y"," ","6"," ","h","o","u","r","s">>,
        times |-> <<T0600, T1200, T1800, T0000>>],
       [pattern |-> <<"e","v","e","r","y"," ","8"," ","h","o","u","r","s">>,
        times |-> <<T0800, T1600, T0000>>],
       [pattern |-> <<"e","v","e","r","y"," ","1","2"," ","h","o","u","r","s">>,
        times |-> <<T0800, T2000>>],
       [pattern |-> <<"m","o","r","n","i","n","g">>, times |-> <<T0900>>],
       [pattern |-> <<"e","v","e","n","i","n","g">>, times |-> <<T2100>>],
       [pattern |-> <<"n","i","g","h","t">>, times |-> <<T2200>>],
       [pattern |-> <<"b","e","d","t","i","m","e">>, times |-> <<T2200>>],
       [pattern |-> <<"b","e","f","o","r","e"," ","b","e","d">>,
        times |-> <<T2200>>] >>

extract_timing_from_frequency_LastMatch(frequency) ==
    LET frequency_lower == Lower(frequency)
        hits == {i \in 1..Len(timing_map) :
                    Contains(frequency_lower, timing_map[i].pattern)}
    IN  IF hits = {} THEN <<T0900>>
        ELSE timing_map[CHOOSE i \in hits : \A j \in hits : i >= j].times

extract_timing_from_frequency(frequency) ==
    LET frequency_lower == Lower(frequency)
        hits == {i \in 1..Len(timing_map) :
                    Contains(frequency_lower, timing_map[i].pattern)}
    IN  IF hits = {} THEN <<T0900>>
        ELSE timing_map[CHOOSE i \in hits : \A j \in hits : i <= j].times

(***************************************************************************)
(* Datetimes: seconds since the midnight that starts day 0.                *)
(***************************************************************************)
\* datetime.replace(hour=0, minute=0, second=0, microsecond=0)
Midnight(t) == (t \div SecondsPerDay) * SecondsPerDay

\* The midnight that starts calendar day d.
DateToDatetime(d) == d * SecondsPerDay

\* time_str.split(':') mapped through int: <<hour, minute>>.
SplitTime(time_str) ==
    LET colon == CHOOSE i \in 1..Len(time_str) :
                    /\ time_str[i] = ":"
                    /\ \A j \in 1..(i - 1) : time_str[j] # ":"
    IN  << ParseInt(SubSeq(time_str, 1, colon - 1)),
           ParseInt(SubSeq(time_str, colon + 1, Len(time_str))) >>

\* schedule_date.replace(hour=hour, minute=minute): seconds are kept.
ReplaceHourMinute(t, hour, minute) ==
    Midnight(t) + hour * SecondsPerHour + minute * SecondsPerMinute
        + (t % SecondsPerMinute)


(***************************************************************************)
(* The store.                                                              *)
(*   prescriptions, medicines, schedules: the rows of each table, by id.   *)
(*   next*Id: the primary-key sequences (ids are not reused).              *)
(*   now: the clock read by tz_now().                                      *)
(*   iot_devices: the rows of the devices table, by their unique device_id.*)
(*   inflight: the requests that have read the store and not yet committed.*)
(*   response: the handler, status code and body of the last answer.       *)
(*   requests: the number of requests received.                            *)
(* History variables, read by no handler: accepted[d] lists the commands   *)
(* whose enqueue committed, delivered[d] those returned by drains, and     *)
(* sinceDrain[d] those accepted since the last drain of d; nextUid labels  *)
(* each enqueue request (the uid field of a queued command).               *)
(* posts counts the HTTP requests the server has sent to devices.          *)
(* assigned[m] is the compartment number the last accepted auto-assign or  *)
(* update-compartment request set on medicine m.                           *)
(* The schedule helpers called on their own: call holds the arguments of   *)
(* the call and result what it returned.                                   *)
(***************************************************************************)
VARIABLES requests, now, prescriptions, medicines, schedules,
          nextPrescriptionId, nextMedicineId, nextScheduleId, response,
          iot_devices, inflight, accepted, delivered, sinceDrain, nextUid,
          posts, assigned, call, result

doseVars == <<prescriptions, medicines, schedules,
              nextPrescriptionId, nextMedicineId, nextScheduleId>>

relayVars == <<iot_devices, inflight, accepted, delivered, sinceDrain,
               nextUid, posts>>

vars == <<requests, now, prescriptions, medicines, schedules,
          nextPrescriptionId, nextMedicineId, nextScheduleId, response,
          iot_devices, inflight, accepted, delivered, sinceDrain, nextUid,
          posts, assigned, call, result>>

helperVars == <<call, result>>

\* tz_today_start()
today_start == Midnight(now)

RespondWith(op, code, body) ==
    response' = [op |-> op, code |-> code, body |-> body]

Respond(op, code) == RespondWith(op, code, <<>>)

\* Removes the rows with ids in gone from a table.
Without(table, gone) == [i \in DOMAIN table \ gone |-> table[i]]

\* Adds the rows of the sequence rows, each under its own id.
WithRows(table, rows) ==
    [i \in DOMAIN table \cup {rows[k].id : k \in 1..Len(rows)} |->
        IF \E k \in 1..Len(rows) : rows[k].id = i
        THEN rows[CHOOSE k \in 1..Len(rows) : rows[k].id = i]
        ELSE table[i]]

(***************************************************************************)
(* Request inputs.                                                         *)
(***************************************************************************)
OnceDaily == <<"O","n","c","e"," ","d","a","i","l","y">>
OneDay == <<"1"," ","D","a","y">>

\* Clock: the first request arrives on day 1 at 09:00; the clock advances
\* in steps of 12 hours.
StartTime == SecondsPerDay + 9 * SecondsPerHour
ClockStep == 12 * SecondsPerHour

\* A member of a JSON object: absent, null, or a text.
Absent == [kind |-> "absent", text |-> <<>>]
Null == [kind |-> "null", text |-> <<>>]
Text(t) == [kind |-> "text", text |-> t]

TwiceADay == <<"t","w","i","c","e"," ","a"," ","D","a","y">>

\* An upstream medicine entry.
Med(name, dosage, frequency, duration) ==
    [name |-> name, dosage |-> dosage, frequency |-> frequency,
     duration |-> duration]

\* Records decoded from the upstream answer, before _post_process_data:
\* prescription_date is None or Some(day), medicines None (no list) or
\* Some(list).
UpstreamRecords ==
    { [error |-> FALSE, prescription_date |-> None,
       medicines |-> Some(<<Med(Text(<<"A">>), Text(<<"5">>),
                                Text(OnceDaily), Text(OneDay))>>)],
      \* a prescription date; no dosage, a blank frequency
      [error |-> FALSE, prescription_date |-> Some(0),
       medicines |-> Some(<<Med(Text(<<"C">>), Absent,
                                Text(<<" ">>), Text(OneDay))>>)],
      \* an empty list, and no list
      [error |-> FALSE, prescription_date |-> None, medicines |-> Some(<<>>)],
      [error |-> FALSE, prescription_date |-> None, medicines |-> None],
      \* no name; the name "None"
      [error |-> FALSE, prescription_date |-> None,
       medicines |-> Some(<<Med(Absent, Text(<<"5">>),
                                Text(OnceDaily), Text(OneDay))>>)],
      [error |-> FALSE, prescription_date |-> None,
       medicines |-> Some(<<Med(Text(<<"N","o","n","e">>), Text(<<"5">>),
                                Text(OnceDaily), Text(OneDay))>>)],
      \* a null dosage
      [error |-> FALSE, prescription_date |-> None,
       medicines |-> Some(<<Med(Text(<<"D">>), Null,
                                Text(OnceDaily), Text(OneDay))>>)],
      \* a duration whose digits int() does not read, after a good medicine
      [error |-> FALSE, prescription_date |-> None,
       medicines |-> Some(<<Med(Text(<<"A">>), Text(<<"5">>),
                                Text(OnceDaily), Text(OneDay)),
                            Med(Text(<<"E">>), Text(<<"5">>),
                                Text(OnceDaily),
                                Text(<<SuperscriptTwo," ","d","a","y","s">>))>>)] }

\* Whether db.session.commit() raises (the store refuses the transaction).
CommitFaults == BOOLEAN

\* start_date of a regenerate request: absent, malformed, or a date (a day).
StartDateInputs ==
    { [kind |-> "absent", day |-> 0], [kind |-> "malformed", day |-> 0],
      [kind |-> "date", day |-> 2] }

\* scheduled_time of an edit request: absent, malformed, or a datetime.
EditTimeInputs ==
    { [kind |-> "absent", time |-> 0], [kind |-> "malformed", time |-> 0],
      [kind |-> "datetime", time |-> 2 * SecondsPerDay + 8 * SecondsPerHour] }

PrescriptionIds == 1..MaxPrescriptions
MedicineIds == 1..MaxMedicines
ScheduleIds == 1..MaxScheduleRows

(***************************************************************************)
(* parse_prescription, from the decoded answer on: _post_process_data, and *)
(* the error record when it raises.                                        *)
(***************************************************************************)
\* str.strip(), for blanks.
RECURSIVE Strip(_)
Strip(s) ==
    IF s = <<>> THEN s
    ELSE IF Head(s) = " " THEN Strip(Tail(s))
    ELSE IF s[Len(s)] = " " THEN Strip(SubSeq(s, 1, Len(s) - 1))
    ELSE s

AsDirected == <<"A","s"," ","d","i","r","e","c","t","e","d">>
SevenDays == <<"7"," ","d","a","y","s">>

\* ['null', 'none', 'n/a']
EmptyWords == { <<"n","u","l","l">>, <<"n","o","n","e">>, <<"n","/","a">> }

\* medicine.get(key, '').strip() raises AttributeError on a null member.
PostProcessRaises(data) ==
    /\ data.medicines # None
    /\ \E i \in 1..Len(Value(data.medicines)) :
          LET medicine == Value(data.medicines)[i] IN
          \/ medicine.dosage.kind = "null"
          \/ medicine.frequency.kind = "null"
          \/ medicine.duration.kind = "null"

\* The member after normalization: the default replaces an absent, blank
\* or 'null' / 'none' / 'n/a' text, any other text is kept as it is.
Normalized(member, default) ==
    IF \/ member.kind = "absent"
       \/ Strip(member.text) = <<>>
       \/ Lower(Strip(member.text)) \in EmptyWords
    THEN Text(default)
    ELSE member

_post_process_data(data) ==
    IF data.medicines = None THEN data
    ELSE [data EXCEPT !.medicines =
            Some([i \in 1..Len(Value(data.medicines)) |->
                    LET medicine == Value(data.medicines)[i] IN
                    Med(medicine.name,
                        Normalized(medicine.dosage, AsDirected),
                        Normalized(medicine.frequency, AsDirected),
                        Normalized(medicine.duration, SevenDays))])]

parse_prescription(data) ==
    IF PostProcessRaises(data) THEN [data EXCEPT !.error = TRUE]
    ELSE _post_process_data(data)

(***************************************************************************)
(* validate_parsed_data                                                    *)
(***************************************************************************)
\* A variant that checks the list and not the names.
validate_parsed_data_ListOnly(data) ==
    /\ data.medicines # None
    /\ Len(Value(data.medicines)) > 0

validate_parsed_data(data) ==
    /\ data.medicines # None
    /\ Len(Value(data.medicines)) > 0
    /\ \A i \in 1..Len(Value(data.medicines)) :
          LET name == Value(data.medicines)[i].name IN
          /\ name.kind = "text"
          /\ name.text # <<>>
          /\ Lower(name.text) \notin
                { <<"n","u","l","l">>, <<"n","o","n","e">>, <<>> }

\* A variant that leaves the pending changes in place.
Rollback_KeepsPending(before, pending) == pending

\* db.session.rollback(): the tables are as they were before the request.
Rollback(before, pending) == before

(***************************************************************************)
(* create_schedules_for_medicine: the rows added for one medicine, with    *)
(* ids from firstId on.  start_date is None or Some(datetime).             *)
(***************************************************************************)
PrescriptionStart(table, medicine) ==
    IF /\ medicine.prescription_id \in DOMAIN table
       /\ table[medicine.prescription_id].prescription_date # None
    THEN DateToDatetime(Value(table[medicine.prescription_id].prescription_date))
    ELSE today_start

DurationDays(medicine) ==
    IF medicine.duration = None \/ Value(medicine.duration) = <<>>
    THEN DefaultDurationDays
    ELSE parse_duration(Value(medicine.duration))

NewSchedule(id, medicine_id, user_id, scheduled_time) ==
    [id |-> id, medicine_id |-> medicine_id, user_id |-> user_id,
     scheduled_time |-> scheduled_time,
     taken |-> FALSE, taken_at |-> None, skipped |-> FALSE]

create_schedules_for_medicine_DayPerRow(medicine, user_id, start, firstId) ==
    LET times == extract_timing_from_frequency(medicine.frequency)
        n == Len(times)
        duration_days == DurationDays(medicine)
    IN  [k \in 1..(duration_days * n) |->
            LET day == k - 1
                hm == SplitTime(times[((k - 1) % n) + 1])
                schedule_date == start + day * SecondsPerDay
            IN  NewSchedule(firstId + k - 1, medicine.id, user_id,
                            ReplaceHourMinute(schedule_date, hm[1], hm[2]))]

create_schedules_for_medicine(medicine, user_id, start, firstId) ==
    LET times == extract_timing_from_frequency(medicine.frequency)
        n == Len(times)
        duration_days == DurationDays(medicine)
    IN  [k \in 1..(duration_days * n) |->
            LET day == (k - 1) \div n
                hm == SplitTime(times[((k - 1) % n) + 1])
                schedule_date == start + day * SecondsPerDay
            IN  NewSchedule(firstId + k - 1, medicine.id, user_id,
                            ReplaceHourMinute(schedule_date, hm[1], hm[2]))]

\* The rows added for the medicines meds[i..], ids from firstId on.
RECURSIVE SchedulesFor(_, _, _, _, _)
SchedulesFor(table, meds, i, user_id, firstId) ==
    IF i > Len(meds) THEN <<>>
    ELSE LET rows == create_schedules_for_medicine(
                         meds[i], user_id,
                         PrescriptionStart(table, meds[i]), firstId)
         IN  rows \o SchedulesFor(table, meds, i + 1, user_id,
                                  firstId + Len(rows))

(***************************************************************************)
(* POST /prescription/upload, from the decoded upstream answer on.         *)
(***************************************************************************)
\* The first medicine of meds whose materialization raises (0: none).
FirstRaising(meds) ==
    LET raising == {i \in 1..Len(meds) :
                       /\ meds[i].duration # None
                       /\ parse_duration_raises(Value(meds[i].duration))}
    IN  IF raising = {} THEN 0
        ELSE CHOOSE i \in raising : \A j \in raising : i <= j

upload_prescription(user_id, upstream, commit_fails) ==
    LET parsed_data == parse_prescription(upstream) IN
    IF parsed_data.error \/ ~validate_parsed_data(parsed_data)
    THEN /\ Respond("upload_prescription", 400)
         /\ UNCHANGED doseVars
    ELSE
    LET n == Len(Value(parsed_data.medicines))
        prescription ==
            [id |-> nextPrescriptionId, user_id |-> user_id,
             prescription_date |-> parsed_data.prescription_date]
        table == WithRows(prescriptions, <<prescription>>)
        medicines_list ==
            [i \in 1..n |->
                LET med_data == Value(parsed_data.medicines)[i] IN
                [id |-> nextMedicineId + i - 1,
                 prescription_id |-> prescription.id,
                 name |-> med_data.name.text,
                 dosage |-> med_data.dosage.text,
                 frequency |-> med_data.frequency.text,
                 duration |-> Some(med_data.duration.text),
                 is_active |-> TRUE]]
        raising == FirstRaising(medicines_list)
        \* the medicines whose schedules are added before anything raises
        materialized ==
            IF raising = 0 THEN medicines_list
            ELSE SubSeq(medicines_list, 1, raising - 1)
        rows == SchedulesFor(table, materialized, 1, user_id, nextScheduleId)
    IN  IF raising # 0 \/ commit_fails
        THEN /\ prescriptions' = Rollback(prescriptions, table)
             /\ medicines' =
                    Rollback(medicines, WithRows(medicines, medicines_list))
             /\ schedules' = Rollback(schedules, WithRows(schedules, rows))
             /\ UNCHANGED <<nextPrescriptionId, nextMedicineId,
                            nextScheduleId>>
             /\ Respond("upload_prescription", 500)
        ELSE /\ nextPrescriptionId <= MaxPrescriptions
             /\ nextMedicineId + n - 1 <= MaxMedicines
             /\ nextScheduleId + Len(rows) - 1 <= MaxScheduleRows
             /\ prescriptions' = table
             /\ medicines' = WithRows(medicines, medicines_list)
             /\ schedules' = WithRows(schedules, rows)
             /\ nextPrescriptionId' = nextPrescriptionId + 1
             /\ nextMedicineId' = nextMedicineId + n
             /\ nextScheduleId' = nextScheduleId + Len(rows)
             /\ Respond("upload_prescription", 201)

(***************************************************************************)
(* Schedule.query.filter_by(id=schedule_id, user_id=user_id).first()       *)
(***************************************************************************)
\* A variant that looks the row up by id alone.
OwnSchedule_AnyOwner(schedule_id, user_id) ==
    schedule_id \in DOMAIN schedules

OwnSchedule(schedule_id, user_id) ==
    /\ schedule_id \in DOMAIN schedules
    /\ schedules[schedule_id].user_id = user_id

\* Medicine.query.join(Prescription).filter(Medicine.id == medicine_id,
\*                                          Prescription.user_id == user_id)
\* A variant that looks the medicine up by id alone.
OwnMedicine_AnyOwner(medicine_id, user_id) ==
    /\ medicine_id \in DOMAIN medicines
    /\ medicines[medicine_id].prescription_id \in DOMAIN prescriptions

OwnMedicine(medicine_id, user_id) ==
    /\ medicine_id \in DOMAIN medicines
    /\ medicines[medicine_id].prescription_id \in DOMAIN prescriptions
    /\ prescriptions[medicines[medicine_id].prescription_id].user_id = user_id

(***************************************************************************)
(* POST /schedule/<id>/mark-taken and /mark-skipped                        *)
(***************************************************************************)
\* A variant that sets the flag and leaves the stamp.
TakenRow_NoStamp(row, at) == [row EXCEPT !.taken = TRUE]

\* A variant that keeps the stamp of a row that has one.
TakenRow_FirstStamp(row, at) ==
    [row EXCEPT !.taken = TRUE,
                !.taken_at = IF row.taken_at = None THEN Some(at) ELSE @]

TakenRow(row, at) == [row EXCEPT !.taken = TRUE, !.taken_at = Some(at)]

SkippedRow(row) == [row EXCEPT !.skipped = TRUE]

mark_taken(user_id, schedule_id) ==
    IF ~OwnSchedule(schedule_id, user_id)
    THEN /\ Respond("mark_taken", 404)
         /\ UNCHANGED doseVars
    ELSE /\ schedules' = [schedules EXCEPT
                            ![schedule_id] = TakenRow(@, now)]
         /\ Respond("mark_taken", 200)
         /\ UNCHANGED <<prescriptions, medicines, nextPrescriptionId,
                        nextMedicineId, nextScheduleId>>

mark_skipped(user_id, schedule_id) ==
    IF ~OwnSchedule(schedule_id, user_id)
    THEN /\ Respond("mark_skipped", 404)
         /\ UNCHANGED doseVars
    ELSE /\ schedules' = [schedules EXCEPT ![schedule_id] = SkippedRow(@)]
         /\ Respond("mark_skipped", 200)
         /\ UNCHANGED <<prescriptions, medicines, nextPrescriptionId,
                        nextMedicineId, nextScheduleId>>

(***************************************************************************)
(* POST /device/dispense: the schedule is looked up by id alone.           *)
(***************************************************************************)
\* device_id of a dispense report: absent, or a device id.
DispenseDeviceInputs == {None, Some("esp-1"), Some("esp-2")}

\* A variant that wants the reporting device to belong to the row's owner.
mark_schedule_dispensed_Paired(schedule_id, device_id) ==
    IF schedule_id \notin DOMAIN schedules
    THEN /\ Respond("mark_schedule_dispensed", 404)
         /\ UNCHANGED doseVars
    ELSE IF \/ device_id = None
            \/ Value(device_id) \notin DOMAIN iot_devices
            \/ iot_devices[Value(device_id)].user_id
                  # schedules[schedule_id].user_id
    THEN /\ Respond("mark_schedule_dispensed", 403)
         /\ UNCHANGED doseVars
    ELSE /\ schedules' = [schedules EXCEPT
                            ![schedule_id] = TakenRow(@, now)]
         /\ Respond("mark_schedule_dispensed", 200)
         /\ UNCHANGED <<prescriptions, medicines, nextPrescriptionId,
                        nextMedicineId, nextScheduleId>>

\* device_id is read from the request and not used.
mark_schedule_dispensed(schedule_id, device_id) ==
    IF schedule_id \notin DOMAIN schedules
    THEN /\ Respond("mark_schedule_dispensed", 404)
         /\ UNCHANGED doseVars
    ELSE /\ schedules' = [schedules EXCEPT
                            ![schedule_id] = TakenRow(@, now)]
         /\ Respond("mark_schedule_dispensed", 200)
         /\ UNCHANGED <<prescriptions, medicines, nextPrescriptionId,
                        nextMedicineId, nextScheduleId>>

(***************************************************************************)
(* POST /medicine/<id>/regenerate-schedules                                *)
(***************************************************************************)
\* A variant of the DELETE statement without its `taken == False` filter.
RegenerateDeletes_AnyTaken(medicine_id, user_id) ==
    {i \in DOMAIN schedules :
        /\ schedules[i].medicine_id = medicine_id
        /\ schedules[i].user_id = user_id
        /\ schedules[i].scheduled_time >= now}

\* A variant of the DELETE statement with `>` for `>=`.
RegenerateDeletes_StrictlyLater(medicine_id, user_id) ==
    {i \in DOMAIN schedules :
        /\ schedules[i].medicine_id = medicine_id
        /\ schedules[i].user_id = user_id
        /\ schedules[i].scheduled_time > now
        /\ schedules[i].taken = FALSE}

\* The rows the DELETE statement of regenerate_schedules removes.
RegenerateDeletes(medicine_id, user_id) ==
    {i \in DOMAIN schedules :
        /\ schedules[i].medicine_id = medicine_id
        /\ schedules[i].user_id = user_id
        /\ schedules[i].scheduled_time >= now
        /\ schedules[i].taken = FALSE}

\* The start date regenerate_schedules materializes from.
RegenerateStart(medicine, start_date) ==
    IF start_date.kind = "date" THEN DateToDatetime(start_date.day)
    ELSE PrescriptionStart(prescriptions, medicine)

regenerate_schedules(user_id, medicine_id, start_date, commit_fails) ==
    IF ~OwnMedicine(medicine_id, user_id)
    THEN /\ Respond("regenerate_schedules", 404)
         /\ UNCHANGED doseVars
    ELSE IF start_date.kind = "malformed"
    THEN /\ Respond("regenerate_schedules", 500)
         /\ schedules' = Rollback(schedules, schedules)
         /\ UNCHANGED <<prescriptions, medicines, nextPrescriptionId,
                        nextMedicineId, nextScheduleId>>
    ELSE LET medicine == medicines[medicine_id]
             rows == create_schedules_for_medicine(
                         medicine, user_id,
                         RegenerateStart(medicine, start_date),
                         nextScheduleId)
             pending == WithRows(
                    Without(schedules, RegenerateDeletes(medicine_id, user_id)),
                    rows)
         IN  IF commit_fails
             THEN /\ schedules' = Rollback(schedules, pending)
                  /\ Respond("regenerate_schedules", 500)
                  /\ UNCHANGED <<prescriptions, medicines, nextPrescriptionId,
                                 nextMedicineId, nextScheduleId>>
             ELSE /\ nextScheduleId + Len(rows) - 1 <= MaxScheduleRows
                  /\ schedules' = pending
                  /\ nextScheduleId' = nextScheduleId + Len(rows)
                  /\ Respond("regenerate_schedules", 200)
                  /\ UNCHANGED <<prescriptions, medicines,
                                 nextPrescriptionId, nextMedicineId>>

(***************************************************************************)
(* PUT and DELETE /schedule/<id>                                           *)
(***************************************************************************)
\* Variants of the guard: one that never refuses, one that tests the other
\* flag.
EditRefused_Never(row) == FALSE

EditRefused_IfSkipped(row) == row.skipped

\* The guard of update_schedule and delete_schedule: `if schedule.taken`.
EditRefused(row) == row.taken

update_schedule(user_id, schedule_id, new_time) ==
    IF ~OwnSchedule(schedule_id, user_id)
    THEN /\ Respond("update_schedule", 404)
         /\ UNCHANGED doseVars
    ELSE IF EditRefused(schedules[schedule_id])
    THEN /\ Respond("update_schedule", 400)
         /\ UNCHANGED doseVars
    ELSE IF new_time.kind = "malformed"
    THEN /\ Respond("update_schedule", 400)
         /\ UNCHANGED doseVars
    ELSE /\ schedules' =
                IF new_time.kind = "datetime"
                THEN [schedules EXCEPT
                        ![schedule_id].scheduled_time = new_time.time]
                ELSE schedules
         /\ Respond("update_schedule", 200)
         /\ UNCHANGED <<prescriptions, medicines, nextPrescriptionId,
                        nextMedicineId, nextScheduleId>>

delete_schedule(user_id, schedule_id) ==
    IF ~OwnSchedule(schedule_id, user_id)
    THEN /\ Respond("delete_schedule", 404)
         /\ UNCHANGED doseVars
    ELSE IF EditRefused(schedules[schedule_id])
    THEN /\ Respond("delete_schedule", 400)
         /\ UNCHANGED doseVars
    ELSE /\ schedules' = Without(schedules, {schedule_id})
         /\ Respond("delete_schedule", 200)
         /\ UNCHANGED <<prescriptions, medicines, nextPrescriptionId,
                        nextMedicineId, nextScheduleId>>

(***************************************************************************)
(* DELETE /prescription/<id>                                               *)
(***************************************************************************)
\* A variant that spares the rows already taken.
PrescriptionSchedules_KeepsTaken(prescription_id) ==
    {i \in DOMAIN schedules :
        /\ schedules[i].medicine_id \in DOMAIN medicines
        /\ medicines[schedules[i].medicine_id].prescription_id
              = prescription_id
        /\ ~schedules[i].taken}

\* The schedules delete_prescription removes: those of every medicine of
\* the prescription, whatever their state.
PrescriptionSchedules(prescription_id) ==
    {i \in DOMAIN schedules :
        /\ schedules[i].medicine_id \in DOMAIN medicines
        /\ medicines[schedules[i].medicine_id].prescription_id
              = prescription_id}

\* A variant that looks the prescription up by id alone.
delete_prescription_AnyOwner(user_id, prescription_id) ==
    IF prescription_id \notin DOMAIN prescriptions
    THEN /\ Respond("delete_prescription", 404)
         /\ UNCHANGED doseVars
    ELSE /\ schedules' =
                Without(schedules, PrescriptionSchedules(prescription_id))
         /\ medicines' =
                Without(medicines,
                        {m \in DOMAIN medicines :
                            medicines[m].prescription_id = prescription_id})
         /\ prescriptions' = Without(prescriptions, {prescription_id})
         /\ Respond("delete_prescription", 200)
         /\ UNCHANGED <<nextPrescriptionId, nextMedicineId, nextScheduleId>>

delete_prescription(user_id, prescription_id) ==
    IF ~(/\ prescription_id \in DOMAIN prescriptions
         /\ prescriptions[prescription_id].user_id = user_id)
    THEN /\ Respond("delete_prescription", 404)
         /\ UNCHANGED doseVars
    ELSE /\ schedules' =
                Without(schedules, PrescriptionSchedules(prescription_id))
         /\ medicines' =
                Without(medicines,
                        {m \in DOMAIN medicines :
                            medicines[m].prescription_id = prescription_id})
         /\ prescriptions' = Without(prescriptions, {prescription_id})
         /\ Respond("delete_prescription", 200)
         /\ UNCHANGED <<nextPrescriptionId, nextMedicineId, nextScheduleId>>

(***************************************************************************)
(* The device registry and the command relay.                              *)
(***************************************************************************)
DeviceIds == {"esp-1", "esp-2"}

\* device_id of a request: a device id, or empty.
DeviceIdInputs == DeviceIds \cup {""}

\* username of a device request: an account's name, or a name of no account.
NoUser == 0
Usernames == Users \cup {NoUser}

\* User.query.filter_by(username=username).first()
UserFound(username) == username \in Users

\* A variant that looks the device up by device_id alone.
DeviceFound_AnyOwner(device_id, user_id) ==
    device_id \in DOMAIN iot_devices

\* IoTDevice.query.filter_by(device_id=device_id, user_id=user_id).first()
DeviceFound(device_id, user_id) ==
    /\ device_id \in DOMAIN iot_devices
    /\ iot_devices[device_id].user_id = user_id

(***************************************************************************)
(* hardware_state: a JSON text, here the sequence of its <<key, value>>    *)
(* members.  A decoded state (state_data) holds the telemetry members, if  *)
(* present, and the pending_commands member, if present.                   *)
(***************************************************************************)
TelemetryKeys ==
    <<"servo_angles", "ultrasonic_distance", "medicine_detected",
      "led_state", "buzzer_state", "current_operation",
      "last_dispense_time", "timestamp">>

HasKey(text, key) == \E i \in 1..Len(text) : text[i][1] = key

\* dict.get(key, default) on the members of a JSON object.
Get(text, key, default) ==
    IF HasKey(text, key)
    THEN text[CHOOSE i \in 1..Len(text) : text[i][1] = key][2]
    ELSE default

json_loads(text) ==
    [telemetry |->
        IF HasKey(text, "timestamp")
        THEN Some([i \in 1..Len(TelemetryKeys) |->
                      Get(text, TelemetryKeys[i], None)])
        ELSE None,
     pending_commands |->
        IF HasKey(text, "pending_commands")
        THEN Some(Get(text, "pending_commands", <<>>))
        ELSE None]

json_dumps(state_data) ==
    (IF state_data.telemetry = None THEN <<>>
     ELSE [i \in 1..Len(TelemetryKeys) |->
              <<TelemetryKeys[i], Value(state_data.telemetry)[i]>>])
    \o
    (IF state_data.pending_commands = None THEN <<>>
     ELSE << <<"pending_commands", Value(state_data.pending_commands)>> >>)

\* state_data = {}
EmptyState == [telemetry |-> None, pending_commands |-> None]

\* The decoded hardware_state of a device row ({} when the column is NULL).
StateData(device) ==
    IF device.hardware_state = None THEN EmptyState
    ELSE json_loads(Value(device.hardware_state))

\* state_data.get('pending_commands', [])
PendingOf(state_data) ==
    IF state_data.pending_commands = None THEN <<>>
    ELSE Value(state_data.pending_commands)

\* The pending commands stored for a device id ([] when there are none).
Pending(device_id) ==
    IF device_id \in DOMAIN iot_devices
    THEN PendingOf(StateData(iot_devices[device_id]))
    ELSE <<>>

(***************************************************************************)
(* Request bodies of POST /device/state and POST /device/command.          *)
(***************************************************************************)
TelemetryInputs ==
    { <<>>,
      << <<"servo_angles", <<90, 0, 0>> >>, <<"ultrasonic_distance", 8>>,
         <<"medicine_detected", TRUE>>, <<"led_state", TRUE>>,
         <<"buzzer_state", TRUE>>, <<"current_operation", "dispensing">>,
         <<"last_dispense_time", Some(StartTime)>> >> }

CommandInputs ==
    { [command |-> "dispense", params |-> Some(<< <<"compartment", 1>> >>)],
      [command |-> "test_led", params |-> None],
      [command |-> "", params |-> None] }

(***************************************************************************)
(* POST /device/heartbeat                                                  *)
(***************************************************************************)
device_heartbeat(device_id, username) ==
    IF device_id = "" \/ username = NoUser
    THEN /\ Respond("device_heartbeat",
                    IF device_id = "" THEN 400 ELSE 404)
         /\ UNCHANGED iot_devices
    ELSE IF DeviceFound(device_id, username)
    THEN /\ iot_devices' = [iot_devices EXCEPT
                              ![device_id].last_seen = Some(now),
                              ![device_id].is_online = TRUE]
         /\ Respond("device_heartbeat", 200)
    ELSE IF device_id \in DOMAIN iot_devices
    \* device_id is unique: the INSERT fails, nothing is committed.
    THEN /\ Respond("device_heartbeat", 500)
         /\ UNCHANGED iot_devices
    ELSE /\ iot_devices' =
              [d \in DOMAIN iot_devices \cup {device_id} |->
                  IF d = device_id
                  THEN [user_id |-> username, is_online |-> TRUE,
                        last_seen |-> Some(now), ip_address |-> None,
                        hardware_state |-> None]
                  ELSE iot_devices[d]]
         /\ Respond("device_heartbeat", 200)

(***************************************************************************)
(* POST /device/register                                                   *)
(***************************************************************************)
\* ip_address of a registration: absent, or an address.
IpInputs == {None, Some("10.0.0.7")}

\* device_name of a registration: given or not.
NameInputs == BOOLEAN

register_device(device_id, has_name, username, ip_address) ==
    IF device_id = "" \/ ~has_name \/ username = NoUser
    THEN /\ Respond("register_device",
                    IF device_id = "" \/ ~has_name THEN 400 ELSE 404)
         /\ UNCHANGED iot_devices
    ELSE IF DeviceFound(device_id, username)
    THEN /\ iot_devices' = [iot_devices EXCEPT
                              ![device_id].ip_address = ip_address,
                              ![device_id].last_seen = Some(now),
                              ![device_id].is_online = TRUE]
         /\ Respond("register_device", 200)
    ELSE IF device_id \in DOMAIN iot_devices
    \* device_id is unique: the INSERT fails, nothing is committed.
    THEN /\ Respond("register_device", 500)
         /\ UNCHANGED iot_devices
    ELSE /\ iot_devices' =
              [d \in DOMAIN iot_devices \cup {device_id} |->
                  IF d = device_id
                  THEN [user_id |-> username, is_online |-> TRUE,
                        last_seen |-> Some(now), ip_address |-> ip_address,
                        hardware_state |-> None]
                  ELSE iot_devices[d]]
         /\ Respond("register_device", 200)

(***************************************************************************)
(* POST /device/<device_id>/status, through                                *)
(* ESP32Manager.update_device_status.                                      *)
(***************************************************************************)
\* datetime.utcnow(), on the scale of the local clock now.
utcnow == now - UtcOffsetHours * SecondsPerHour

\* The address a status update carries (the body's, or the sender's).
StatusIp == Some("10.0.0.9")

\* A variant that inserts a row for a device id it does not find.
update_device_status_Upsert(device_id, ip_address) ==
    iot_devices' =
        [d \in DOMAIN iot_devices \cup {device_id} |->
            IF d = device_id
            THEN [user_id |-> 1, is_online |-> TRUE,
                  last_seen |-> Some(utcnow), ip_address |-> ip_address,
                  hardware_state |-> None]
            ELSE iot_devices[d]]

\* The row lookup is by device_id alone; TRUE is returned iff it is found.
update_device_status(device_id, ip_address) ==
    IF device_id \in DOMAIN iot_devices
    THEN iot_devices' = [iot_devices EXCEPT
                            ![device_id].is_online = TRUE,
                            ![device_id].last_seen = Some(utcnow),
                            ![device_id].ip_address = ip_address]
    ELSE UNCHANGED iot_devices

device_status(device_id, ip_address) ==
    /\ update_device_status(device_id, ip_address)
    /\ Respond("device_status",
               IF device_id \in DOMAIN iot_devices THEN 200 ELSE 404)

(***************************************************************************)
(* The two readers of last_seen: GET /device/monitor/<device_id> and the   *)
(* /devices page.                                                          *)
(***************************************************************************)
\* A variant with <= for <.
is_online_at_Inclusive(device, clock) ==
    /\ device.last_seen # None
    /\ clock - Value(device.last_seen) <= DeviceTimeout

\* monitor_device: is_online, with the clock reading tz_now() returns.
is_online_at(device, clock) ==
    /\ device.last_seen # None
    /\ clock - Value(device.last_seen) < DeviceTimeout

monitor_device(user_id, device_id) ==
    IF ~DeviceFound(device_id, user_id)
    THEN /\ Respond("monitor_device", 404)
         /\ UNCHANGED iot_devices
    ELSE /\ RespondWith("monitor_device", 200,
                        <<is_online_at(iot_devices[device_id], now)>>)
         /\ UNCHANGED iot_devices

\* devices: time_diff < timedelta(minutes=5), written to is_online.
listed_online(device) ==
    /\ device.last_seen # None
    /\ now - Value(device.last_seen) < ListTimeoutMinutes * SecondsPerMinute

devices(user_id) ==
    /\ iot_devices' =
          [d \in DOMAIN iot_devices |->
              IF iot_devices[d].user_id = user_id
              THEN [iot_devices[d] EXCEPT
                      !.is_online = listed_online(iot_devices[d])]
              ELSE iot_devices[d]]
    /\ Respond("devices", 200)

(***************************************************************************)
(* Compartments.  compartment_number is not a column of Medicine: the      *)
(* handlers set it on the loaded object and commit, which stores nothing,  *)
(* and an object loaded by a later request has no such attribute.          *)
(***************************************************************************)
CompartmentSlots == 3

\* compartment_number of an update request: absent, or a number.
CompartmentInputs == {None, Some(0), Some(2), Some(7)}

\* medicine_id of an update request; 0 stands for an absent one.
MedicineIdInputs == MedicineIds \cup {0}

\* The active medicines of a prescription.
ActiveMedicines(prescription_id) ==
    {m \in DOMAIN medicines :
        /\ medicines[m].prescription_id = prescription_id
        /\ medicines[m].is_active}

\* A variant with a slot for every medicine.
SlotOf_NoLimit(meds, m) == Cardinality({k \in meds : k <= m})

\* The slot the loop gives to medicine m of meds, taken in order of id.
SlotOf(meds, m) ==
    LET rank == Cardinality({k \in meds : k <= m})
    IN  IF rank <= CompartmentSlots THEN rank ELSE 0

auto_assign_slots(user_id, prescription_id) ==
    /\ UNCHANGED doseVars
    /\ IF ~(/\ prescription_id \in DOMAIN prescriptions
            /\ prescriptions[prescription_id].user_id = user_id)
       THEN /\ Respond("auto_assign_slots", 404)
            /\ UNCHANGED assigned
       ELSE LET meds == ActiveMedicines(prescription_id)
                assigned_count ==
                    Cardinality({m \in meds : SlotOf(meds, m) # 0})
                unassigned_count ==
                    Cardinality({m \in meds : SlotOf(meds, m) = 0})
            IN  IF meds = {}
                THEN /\ Respond("auto_assign_slots", 404)
                     /\ UNCHANGED assigned
                ELSE /\ assigned' =
                           [m \in DOMAIN assigned |->
                               IF m \in meds THEN Some(SlotOf(meds, m))
                               ELSE assigned[m]]
                     /\ RespondWith("auto_assign_slots", 200,
                                    <<assigned_count, unassigned_count>>)

update_medicine_compartment(medicine_id, compartment_number, username) ==
    /\ UNCHANGED doseVars
    /\ IF medicine_id = 0 \/ compartment_number = None \/ username = NoUser
       THEN /\ Respond("update_medicine_compartment",
                       IF medicine_id = 0 \/ compartment_number = None
                       THEN 400 ELSE 404)
            /\ UNCHANGED assigned
       ELSE IF ~OwnMedicine(medicine_id, username)
       THEN /\ Respond("update_medicine_compartment", 404)
            /\ UNCHANGED assigned
       ELSE /\ assigned' = [assigned EXCEPT
                              ![medicine_id] = compartment_number]
            /\ Respond("update_medicine_compartment", 200)

\* The rows the query of get_device_schedules selects.
DeviceScheduleRows(user_id) ==
    {i \in DOMAIN schedules :
        /\ schedules[i].user_id = user_id
        /\ schedules[i].scheduled_time >= now
        /\ schedules[i].scheduled_time <= now + DeviceWindowDays * SecondsPerDay
        /\ ~schedules[i].taken}

\* The body lists schedule ids.  Reading medicine.compartment_number of a
\* selected row raises AttributeError.
get_device_schedules(username) ==
    /\ UNCHANGED <<doseVars, assigned>>
    /\ IF username = NoUser
       THEN Respond("get_device_schedules", 404)
       ELSE IF DeviceScheduleRows(username) # {}
       THEN Respond("get_device_schedules", 500)
       ELSE RespondWith("get_device_schedules", 200, <<>>)

(***************************************************************************)
(* ESP32Manager.send_notification and send_dispense_command, and their     *)
(* routes POST /device/<id>/notify and /device/<id>/dispense.              *)
(***************************************************************************)
\* What requests.post(url, json=..., timeout=5) does: the device answers
\* 200 with a JSON body, answers another status, or the call raises a
\* RequestException.
TransportOutcomes ==
    { [kind |-> "ok", error |-> ""],
      [kind |-> "http", error |-> "HTTP 503"],
      [kind |-> "transport", error |-> "timed out"],
      [kind |-> "transport", error |-> "connection refused"] }

NotAvailable == [success |-> FALSE, error |-> "Device not available"]

\* A variant that does not read the stored is_online flag.
DeviceAvailable_AnyFlag(device_id) ==
    /\ device_id \in DOMAIN iot_devices
    /\ iot_devices[device_id].ip_address # None

\* if not device or not device.is_online or not device.ip_address
DeviceAvailable(device_id) ==
    /\ device_id \in DOMAIN iot_devices
    /\ iot_devices[device_id].is_online
    /\ iot_devices[device_id].ip_address # None

\* The dict the manager returns after its one requests.post.
Attempted(outcome) ==
    [success |-> outcome.kind = "ok", error |-> outcome.error]

\* A variant whose except clause leaves the device as it was.
send_notification_KeepsOnline(device_id, outcome, returned) ==
    IF ~DeviceAvailable(device_id)
    THEN /\ returned = NotAvailable
         /\ UNCHANGED <<iot_devices, posts>>
    ELSE /\ posts' = posts + 1
         /\ UNCHANGED iot_devices
         /\ returned = Attempted(outcome)

\* returned is the dict the call returns.
send_notification(device_id, outcome, returned) ==
    IF ~DeviceAvailable(device_id)
    THEN /\ returned = NotAvailable
         /\ UNCHANGED <<iot_devices, posts>>
    ELSE /\ posts' = posts + 1
         /\ iot_devices' =
               IF outcome.kind = "transport"
               THEN [iot_devices EXCEPT ![device_id].is_online = FALSE]
               ELSE iot_devices
         /\ returned = Attempted(outcome)

send_dispense_command(device_id, outcome, returned) ==
    IF ~DeviceAvailable(device_id)
    THEN /\ returned = NotAvailable
         /\ UNCHANGED <<iot_devices, posts>>
    ELSE /\ posts' = posts + 1
         /\ iot_devices' =
               IF outcome.kind = "transport"
               THEN [iot_devices EXCEPT ![device_id].is_online = FALSE]
               ELSE iot_devices
         /\ returned = Attempted(outcome)

ManagerResults == {NotAvailable} \cup {Attempted(o) : o \in TransportOutcomes}

notify_device(device_id, outcome) ==
    \E returned \in ManagerResults :
        /\ send_notification(device_id, outcome, returned)
        /\ RespondWith("notify_device",
                       IF returned.success THEN 200 ELSE 500,
                       <<returned.success, returned.error>>)

dispense_medicine(device_id, outcome) ==
    \E returned \in ManagerResults :
        /\ send_dispense_command(device_id, outcome, returned)
        /\ RespondWith("dispense_medicine",
                       IF returned.success THEN 200 ELSE 500,
                       <<returned.success, returned.error>>)

(***************************************************************************)
(* POST /device/state                                                      *)
(***************************************************************************)
\* The dict update_device_state stores for a request body.
TelemetryState(state_data, data) ==
    [telemetry |->
        Some(<< Get(data, "servo_angles", <<0, 0, 0>>),
                Get(data, "ultrasonic_distance", 0),
                Get(data, "medicine_detected", FALSE),
                Get(data, "led_state", FALSE),
                Get(data, "buzzer_state", FALSE),
                Get(data, "current_operation", "idle"),
                Get(data, "last_dispense_time", None),
                now >>),
     pending_commands |-> None]

update_device_state(device_id, username, data) ==
    IF device_id = "" \/ username = NoUser
          \/ ~DeviceFound(device_id, username)
    THEN /\ Respond("update_device_state",
                    IF device_id = "" THEN 400 ELSE 404)
         /\ UNCHANGED iot_devices
    ELSE /\ iot_devices' = [iot_devices EXCEPT
              ![device_id].hardware_state =
                  Some(json_dumps(
                      TelemetryState(StateData(iot_devices[device_id]),
                                     data)))]
         /\ Respond("update_device_state", 200)

(***************************************************************************)
(* POST /device/command (enqueue) and GET /device/commands (drain): what   *)
(* each writes, given the state_data it read.                              *)
(***************************************************************************)
CommandEntry(data, uid) ==
    [command |-> data.command,
     params |-> IF data.params = None THEN <<>> ELSE Value(data.params),
     timestamp |-> now,
     uid |-> uid]

EnqueueState(state_data, entry) ==
    [state_data EXCEPT
        !.pending_commands = Some(Append(PendingOf(state_data), entry))]

DrainState(state_data) ==
    [state_data EXCEPT !.pending_commands = Some(<<>>)]

\* The early returns of send_device_command: 0 when the request goes on.
EnqueueRejected(user_id, device_id, data) ==
    IF device_id = "" \/ data.command = "" THEN 400
    ELSE IF ~DeviceFound(device_id, user_id) THEN 404
    ELSE 0

\* The lookups of get_device_commands that end it with an empty list.
DrainEmpty(device_id, username) ==
    \/ device_id = ""
    \/ username = NoUser
    \/ ~DeviceFound(device_id, username)
    \/ iot_devices[device_id].hardware_state = None

\* The UPDATE a handler commits: the hardware_state column of one row.
WriteHardwareState(device_id, state_data) ==
    iot_devices' = [iot_devices EXCEPT
        ![device_id].hardware_state = Some(json_dumps(state_data))]

\* History: an enqueue of entry for device_id committed.
NoteAccepted(device_id, entry) ==
    /\ accepted' = [accepted EXCEPT ![device_id] = Append(@, entry)]
    /\ sinceDrain' = [sinceDrain EXCEPT ![device_id] = Append(@, entry)]

\* History: a drain of device_id returned commands.
NoteDelivered(device_id, commands) ==
    /\ delivered' = [delivered EXCEPT ![device_id] = @ \o commands]
    /\ sinceDrain' = [sinceDrain EXCEPT ![device_id] = <<>>]

(***************************************************************************)
(* The two handlers run without interleaving.                              *)
(***************************************************************************)
send_device_command(user_id, device_id, data) ==
    IF EnqueueRejected(user_id, device_id, data) # 0
    THEN /\ Respond("send_device_command",
                    EnqueueRejected(user_id, device_id, data))
         /\ UNCHANGED relayVars
    ELSE LET entry == CommandEntry(data, nextUid) IN
         /\ nextUid <= MaxCommands
         /\ WriteHardwareState(device_id,
                EnqueueState(StateData(iot_devices[device_id]), entry))
         /\ NoteAccepted(device_id, entry)
         /\ nextUid' = nextUid + 1
         /\ Respond("send_device_command", 200)
         /\ UNCHANGED <<inflight, delivered>>

get_device_commands(device_id, username) ==
    IF DrainEmpty(device_id, username)
    THEN /\ RespondWith("get_device_commands", 200, <<>>)
         /\ IF DeviceFound(device_id, username)
            THEN NoteDelivered(device_id, <<>>)
            ELSE UNCHANGED <<delivered, sinceDrain>>
         /\ UNCHANGED <<iot_devices, inflight, accepted, nextUid>>
    ELSE LET state_data == StateData(iot_devices[device_id])
             commands == PendingOf(state_data)
         IN  /\ WriteHardwareState(device_id, DrainState(state_data))
             /\ NoteDelivered(device_id, commands)
             /\ RespondWith("get_device_commands", 200, commands)
             /\ UNCHANGED <<inflight, accepted, nextUid>>

(***************************************************************************)
(* The two handlers as the server runs them: each request reads the row,   *)
(* and commits its write in a later step; other requests run in between.   *)
(***************************************************************************)
send_device_command_read(user_id, device_id, data) ==
    IF EnqueueRejected(user_id, device_id, data) # 0
    THEN /\ Respond("send_device_command",
                    EnqueueRejected(user_id, device_id, data))
         /\ UNCHANGED relayVars
    ELSE /\ nextUid <= MaxCommands
         /\ Cardinality(inflight) < MaxInflight
         /\ inflight' = inflight \cup
              {[kind |-> "enqueue", device_id |-> device_id,
                state_data |-> StateData(iot_devices[device_id]),
                entry |-> Some(CommandEntry(data, nextUid))]}
         /\ nextUid' = nextUid + 1
         /\ UNCHANGED <<iot_devices, accepted, delivered, sinceDrain,
                        response>>

send_device_command_commit(r) ==
    /\ r.kind = "enqueue"
    /\ WriteHardwareState(r.device_id,
            EnqueueState(r.state_data, Value(r.entry)))
    /\ inflight' = inflight \ {r}
    /\ NoteAccepted(r.device_id, Value(r.entry))
    /\ Respond("send_device_command", 200)
    /\ UNCHANGED <<delivered, nextUid>>

\* The device polls with one request at a time.
get_device_commands_read(device_id, username) ==
    IF DrainEmpty(device_id, username)
    THEN /\ RespondWith("get_device_commands", 200, <<>>)
         /\ UNCHANGED relayVars
    ELSE /\ Cardinality(inflight) < MaxInflight
         /\ ~\E r \in inflight : r.kind = "drain" /\ r.device_id = device_id
         /\ inflight' = inflight \cup
              {[kind |-> "drain", device_id |-> device_id,
                state_data |-> StateData(iot_devices[device_id]),
                entry |-> None]}
         /\ UNCHANGED <<iot_devices, accepted, delivered, sinceDrain,
                        nextUid, response>>

\* A variant that reads the row again when it writes, so that read and
\* clear are one step.
get_device_commands_commit_Atomic(r) ==
    /\ r.kind = "drain"
    /\ WriteHardwareState(r.device_id,
            DrainState(StateData(iot_devices[r.device_id])))
    /\ inflight' = inflight \ {r}
    /\ NoteDelivered(r.device_id, Pending(r.device_id))
    /\ RespondWith("get_device_commands", 200, Pending(r.device_id))
    /\ UNCHANGED <<accepted, nextUid>>

get_device_commands_commit(r) ==
    /\ r.kind = "drain"
    /\ WriteHardwareState(r.device_id, DrainState(r.state_data))
    /\ inflight' = inflight \ {r}
    /\ NoteDelivered(r.device_id, PendingOf(r.state_data))
    /\ RespondWith("get_device_commands", 200, PendingOf(r.state_data))
    /\ UNCHANGED <<accepted, nextUid>>

(***************************************************************************)
(* The clock.                                                              *)
(***************************************************************************)
Tick ==
    /\ now + ClockStep <= StartTime + MaxTicks * ClockStep
    /\ now' = now + ClockStep
    /\ UNCHANGED <<doseVars, relayVars, response, requests, helperVars,
                   assigned>>

(***************************************************************************)
(* The dose store under sequential requests.                               *)
(***************************************************************************)
\* No helper has been called on its own.
NoCall == [frequency |-> <<>>, duration |-> None, anchor |-> 0]
NoResult == [op |-> "none", raised |-> FALSE, value |-> 0]

InitStore ==
    /\ now = StartTime
    /\ requests = 0
    /\ prescriptions = <<>>
    /\ medicines = <<>>
    /\ schedules = <<>>
    /\ nextPrescriptionId = 1
    /\ nextMedicineId = 1
    /\ nextScheduleId = 1
    /\ response = [op |-> "none", code |-> 0, body |-> <<>>]
    /\ iot_devices = <<>>
    /\ inflight = {}
    /\ accepted = [d \in DeviceIds |-> <<>>]
    /\ delivered = [d \in DeviceIds |-> <<>>]
    /\ sinceDrain = [d \in DeviceIds |-> <<>>]
    /\ nextUid = 1
    /\ posts = 0
    /\ assigned = [m \in MedicineIds |-> None]

Init ==
    /\ InitStore
    /\ call = NoCall
    /\ result = NoResult

\* A request is received (at most limit of them in a run).
Received(limit) ==
    /\ requests < limit
    /\ requests' = requests + 1
    /\ UNCHANGED helperVars

DoseRequest ==
    /\ Received(MaxRequests)
    /\ UNCHANGED <<now, relayVars, assigned>>

Next ==
    \/ Tick
    \/ \E u \in Users, d \in UpstreamRecords, f \in CommitFaults :
          DoseRequest /\ upload_prescription(u, d, f)
    \/ \E u \in Users, s \in ScheduleIds :
          DoseRequest /\ mark_taken(u, s)
    \/ \E u \in Users, s \in ScheduleIds :
          DoseRequest /\ mark_skipped(u, s)
    \/ \E s \in ScheduleIds, device \in DispenseDeviceInputs :
          DoseRequest /\ mark_schedule_dispensed(s, device)
    \/ \E u \in Users, m \in MedicineIds, d \in StartDateInputs,
          f \in CommitFaults :
          DoseRequest /\ regenerate_schedules(u, m, d, f)
    \/ \E u \in Users, s \in ScheduleIds, t \in EditTimeInputs :
          DoseRequest /\ update_schedule(u, s, t)
    \/ \E u \in Users, s \in ScheduleIds :
          DoseRequest /\ delete_schedule(u, s)
    \/ \E u \in Users, p \in PrescriptionIds :
          DoseRequest /\ delete_prescription(u, p)

Spec == Init /\ [][Next]_vars

(***************************************************************************)
(* The relay under sequential requests.                                    *)
(***************************************************************************)
RelayRequest(limit) ==
    /\ Received(limit)
    /\ UNCHANGED <<now, doseVars, posts, assigned>>

RegistryOnly ==
    UNCHANGED <<inflight, accepted, delivered, sinceDrain, nextUid>>

NextRelay ==
    \/ \E d \in DeviceIdInputs, u \in Usernames :
          /\ RelayRequest(MaxRelayRequests)
          /\ device_heartbeat(d, u)
          /\ RegistryOnly
    \/ \E d \in DeviceIdInputs, u \in Usernames, t \in TelemetryInputs :
          /\ RelayRequest(MaxRelayRequests)
          /\ update_device_state(d, u, t)
          /\ RegistryOnly
    \/ \E u \in Users, d \in DeviceIdInputs, c \in CommandInputs :
          /\ RelayRequest(MaxRelayRequests)
          /\ send_device_command(u, d, c)
    \/ \E d \in DeviceIdInputs, u \in Usernames :
          /\ RelayRequest(MaxRelayRequests)
          /\ get_device_commands(d, u)

SpecRelay == Init /\ [][NextRelay]_vars

(***************************************************************************)
(* The device registry: its writers, its two readers and the clock.        *)
(***************************************************************************)
RegistrySteps == {DeviceTimeout - 1, DeviceTimeout}

RegistryTick ==
    \E step \in RegistrySteps :
        /\ now + step <= StartTime + MaxRegistryTicks * DeviceTimeout
        /\ now' = now + step
        /\ UNCHANGED <<doseVars, relayVars, response, requests, helperVars,
                       assigned>>

RegistryRequest ==
    /\ RelayRequest(MaxRegistryRequests)
    /\ RegistryOnly

NextRegistry ==
    \/ RegistryTick
    \/ \E d \in DeviceIdInputs, n \in NameInputs, u \in Usernames,
          ip \in IpInputs :
          RegistryRequest /\ register_device(d, n, u, ip)
    \/ \E d \in DeviceIdInputs, u \in Usernames :
          RegistryRequest /\ device_heartbeat(d, u)
    \/ \E d \in DeviceIds :
          RegistryRequest /\ device_status(d, StatusIp)
    \/ \E d \in DeviceIdInputs, u \in Usernames, t \in TelemetryInputs :
          RegistryRequest /\ update_device_state(d, u, t)
    \/ \E u \in Users, d \in DeviceIds :
          RegistryRequest /\ monitor_device(u, d)
    \/ \E u \in Users : RegistryRequest /\ devices(u)

SpecRegistry == Init /\ [][NextRegistry]_vars

(***************************************************************************)
(* The server's requests to devices, with the routes that make a device    *)
(* available.                                                              *)
(***************************************************************************)
MaxOutboundRequests == 4

OutboundRequest ==
    /\ Received(MaxOutboundRequests)
    /\ UNCHANGED <<now, doseVars, assigned>>
    /\ RegistryOnly

NextOutbound ==
    \/ \E d \in DeviceIds, u \in Users, ip \in IpInputs :
          OutboundRequest /\ register_device(d, TRUE, u, ip)
                          /\ UNCHANGED posts
    \/ \E d \in DeviceIds :
          OutboundRequest /\ device_status(d, StatusIp) /\ UNCHANGED posts
    \/ \E d \in DeviceIds, u \in Users :
          OutboundRequest /\ device_heartbeat(d, u) /\ UNCHANGED posts
    \/ \E u \in Users :
          OutboundRequest /\ devices(u) /\ UNCHANGED posts
    \/ \E d \in DeviceIds, o \in TransportOutcomes :
          OutboundRequest /\ notify_device(d, o)
    \/ \E d \in DeviceIds, o \in TransportOutcomes :
          OutboundRequest /\ dispense_medicine(d, o)

SpecOutbound == Init /\ [][NextOutbound]_vars

(***************************************************************************)
(* Compartments and the device's schedule list.                            *)
(***************************************************************************)
MaxSlotRequests == 3

\* A record with four medicines, and one with one.
SlotRecords ==
    { [error |-> FALSE, prescription_date |-> None,
       medicines |-> Some(<<Med(Text(<<"A">>), Text(<<"5">>),
                                Text(OnceDaily), Text(OneDay)),
                            Med(Text(<<"B">>), Text(<<"5">>),
                                Text(OnceDaily), Text(OneDay)),
                            Med(Text(<<"C">>), Text(<<"5">>),
                                Text(OnceDaily), Text(OneDay)),
                            Med(Text(<<"D">>), Text(<<"5">>),
                                Text(OnceDaily), Text(OneDay))>>)],
      [error |-> FALSE, prescription_date |-> None,
       medicines |-> Some(<<Med(Text(<<"A">>), Text(<<"5">>),
                                Text(OnceDaily), Text(OneDay))>>)] }

SlotRequest ==
    /\ Received(MaxSlotRequests)
    /\ UNCHANGED <<now, relayVars>>

NextSlots ==
    \/ \E u \in Users, d \in SlotRecords :
          SlotRequest /\ upload_prescription(u, d, FALSE)
                      /\ UNCHANGED assigned
    \/ \E u \in Users, s \in ScheduleIds :
          SlotRequest /\ mark_taken(u, s) /\ UNCHANGED assigned
    \/ \E u \in Users, s \in ScheduleIds :
          SlotRequest /\ mark_skipped(u, s) /\ UNCHANGED assigned
    \/ \E u \in Users, p \in PrescriptionIds :
          SlotRequest /\ auto_assign_slots(u, p)
    \/ \E m \in MedicineIdInputs, c \in CompartmentInputs, u \in Usernames :
          SlotRequest /\ update_medicine_compartment(m, c, u)
    \/ \E u \in Usernames :
          SlotRequest /\ get_device_schedules(u)

SpecSlots == Init /\ [][NextSlots]_vars

(***************************************************************************)
(* The schedule helpers called on their own.                               *)
(***************************************************************************)
MaxAnchorDay == 1

\* Duration texts.
ThreeDays == <<"3"," ","d","a","y","s">>
TwoWeeks == <<"2"," ","w","e","e","k","s">>
OneMonth == <<"1"," ","m","o","n","t","h">>
TwoDays == <<"2"," ","d","a","y","s">>
DaysOnly == <<"d","a","y","s">>
WeekOnly == <<"w","e","e","k">>
MonthOnly == <<"m","o","n","t","h">>
NoUnit == <<"5">>
Soon == <<"s","o","o","n">>
TwoWeeksUpper == <<"2"," ","W","E","E","K","S">>
WeekAndDays == <<"1"," ","w","e","e","k"," ","3"," ","d","a","y","s">>
ZeroDays == <<"0"," ","d","a","y","s">>
SquaredDays == <<SuperscriptTwo," ","d","a","y","s">>
OneAndAHalfDays == <<"1",".","5"," ","d","a","y","s">>

\* medicine.duration: NULL, or a text.
DurationInputs ==
    {None, Some(<<>>), Some(OneDay), Some(TwoDays), Some(ThreeDays),
     Some(TwoWeeks), Some(OneMonth), Some(DaysOnly), Some(WeekOnly),
     Some(MonthOnly), Some(NoUnit), Some(Soon), Some(TwoWeeksUpper),
     Some(WeekAndDays), Some(ZeroDays), Some(SquaredDays),
     Some(OneAndAHalfDays)}

\* Frequency texts.
TwiceDaily == <<"t","w","i","c","e"," ","d","a","i","l","y">>
TwiceDailyUpper == <<"T","w","i","c","e"," ","D","a","i","l","y">>
EverySixHours == <<"e","v","e","r","y"," ","6"," ","h","o","u","r","s">>
AsNeeded == <<"a","s"," ","n","e","e","d","e","d">>
TwiceDailyAtNight == <<"t","w","i","c","e"," ","d","a","i","l","y"," ","a","t"," ","n","i","g","h","t">>
NightAndMorning == <<"n","i","g","h","t"," ","a","n","d"," ","m","o","r","n","i","n","g">>

FrequencyInputs ==
    {<<>>, OnceDaily, TwiceADay, TwiceDaily, TwiceDailyUpper, EverySixHours,
     AsNeeded, TwiceDailyAtNight, NightAndMorning}

\* The day of the start date.
AnchorInputs == 0..MaxAnchorDay

HelperCalls ==
    [frequency : FrequencyInputs, duration : DurationInputs,
     anchor : AnchorInputs]

InitHelpers ==
    /\ InitStore
    /\ call \in HelperCalls
    /\ result = NoResult

Returned(op, value) == [op |-> op, raised |-> FALSE, value |-> value]
Raised(op) == [op |-> op, raised |-> TRUE, value |-> 0]

\* The medicine row of the call.
CallMedicine ==
    [id |-> 1, prescription_id |-> 1, name |-> <<"A">>, dosage |-> <<"5">>,
     frequency |-> call.frequency, duration |-> call.duration,
     is_active |-> TRUE]

DurationRaises(medicine) ==
    /\ medicine.duration # None
    /\ Value(medicine.duration) # <<>>
    /\ parse_duration_raises(Value(medicine.duration))

\* duration_days = parse_duration(medicine.duration) if medicine.duration
\* else 7
DurationCall ==
    /\ result' = IF DurationRaises(CallMedicine)
                 THEN Raised("parse_duration")
                 ELSE Returned("parse_duration", DurationDays(CallMedicine))
    /\ UNCHANGED <<requests, now, doseVars, relayVars, response, call,
                   assigned>>

\* parser.extract_timing_from_frequency(medicine.frequency)
TimingCall ==
    /\ result' = Returned("extract_timing_from_frequency",
                          extract_timing_from_frequency(call.frequency))
    /\ UNCHANGED <<requests, now, doseVars, relayVars, response, call,
                   assigned>>

\* create_schedules_for_medicine(medicine, user_id, parser, start_date):
\* the rows it adds to the session.
SchedulesCall ==
    /\ result' = IF DurationRaises(CallMedicine)
                 THEN Raised("create_schedules_for_medicine")
                 ELSE Returned("create_schedules_for_medicine",
                               create_schedules_for_medicine(
                                   CallMedicine, 1,
                                   DateToDatetime(call.anchor), 1))
    /\ UNCHANGED <<requests, now, doseVars, relayVars, response, call,
                   assigned>>

NextHelpers == DurationCall \/ TimingCall \/ SchedulesCall

SpecHelpers == InitHelpers /\ [][NextHelpers]_vars

(***************************************************************************)
(* The relay under concurrent requests.                                    *)
(***************************************************************************)
Commit == UNCHANGED <<requests, now, doseVars, helperVars, posts, assigned>>

NextConc ==
    \/ \E d \in DeviceIdInputs, u \in Usernames :
          /\ RelayRequest(MaxConcRequests)
          /\ device_heartbeat(d, u)
          /\ RegistryOnly
    \/ \E d \in DeviceIdInputs, u \in Usernames, t \in TelemetryInputs :
          /\ RelayRequest(MaxConcRequests)
          /\ update_device_state(d, u, t)
          /\ RegistryOnly
    \/ \E u \in Users, d \in DeviceIdInputs, c \in CommandInputs :
          /\ RelayRequest(MaxConcRequests)
          /\ send_device_command_read(u, d, c)
    \/ \E d \in DeviceIdInputs, u \in Usernames :
          /\ RelayRequest(MaxConcRequests)
          /\ get_device_commands_read(d, u)
    \/ \E r \in inflight : Commit /\ send_device_command_commit(r)
    \/ \E r \in inflight : Commit /\ get_device_commands_commit(r)

SpecConc == Init /\ [][NextConc]_vars

(***************************************************************************)
(* Properties.                                                             *)
(***************************************************************************)
\* C1: run one after another, a drain of a device returns exactly the
\* commands enqueued for it since its previous drain, in insertion order
\* (so a drain right after a drain returns the empty list).
C1_DrainReturnsEnqueuedSinceLastDrain ==
    [][\A d \in DeviceIds, u \in Users :
          (get_device_commands(d, u) /\ DeviceFound(d, u))
              => response'.body = sinceDrain[d]]_vars

\* C2: a telemetry update leaves the pending commands of the device as they
\* were.
C2_TelemetryKeepsPendingCommands ==
    [][\A d \in DeviceIds, u \in Users, t \in TelemetryInputs :
          update_device_state(d, u, t) => Pending(d)' = Pending(d)]_vars


\* The medicine of the newest schedule row, the one last materialized.
NewestMedicine ==
    IF nextScheduleId - 1 \in DOMAIN schedules
    THEN schedules[nextScheduleId - 1].medicine_id
    ELSE 0

\* C3: a regenerate removes no row whose taken flag is set, whatever its
\* scheduled time and whatever start date the request carries.
C3_RegenerateKeepsTakenRows ==
    [][\A u \in Users, m \in MedicineIds, d \in StartDateInputs,
          f \in CommitFaults :
          (response'.op = "regenerate_schedules"
              /\ regenerate_schedules(u, m, d, f)) =>
              \A i \in DOMAIN schedules :
                  schedules[i].taken => i \in DOMAIN schedules']_vars

\* A regenerate succeeded for a medicine that has a taken row scheduled now
\* or later.
C3_Witness ==
    /\ response.op = "regenerate_schedules"
    /\ response.code = 200
    /\ \E i \in DOMAIN schedules :
          /\ schedules[i].taken
          /\ schedules[i].scheduled_time >= now
          /\ schedules[i].medicine_id = NewestMedicine

\* C4: a successful regenerate of (medicine, owner) removes exactly the rows
\* of that medicine and owner that are scheduled now or later and not taken;
\* every other row stays, with all its fields as they were.  A regenerate
\* that fails removes and changes nothing.
C4_RegenerateDeletesExactly ==
    [][\A u \in Users, m \in MedicineIds, d \in StartDateInputs,
          f \in CommitFaults :
          (response'.op = "regenerate_schedules"
              /\ regenerate_schedules(u, m, d, f)) =>
              \A i \in DOMAIN schedules :
                  IF /\ response'.code = 200
                     /\ schedules[i].medicine_id = m
                     /\ schedules[i].user_id = u
                     /\ schedules[i].scheduled_time >= now
                     /\ ~schedules[i].taken
                  THEN i \notin DOMAIN schedules'
                  ELSE /\ i \in DOMAIN schedules'
                       /\ schedules'[i] = schedules[i]]_vars

\* Three requests on one medicine: its upload and two regenerates, the
\* second of which removed the row of the first and kept the past row.
C4_Witness ==
    /\ response.op = "regenerate_schedules"
    /\ response.code = 200
    /\ requests = 3
    /\ nextMedicineId = 2
    /\ nextScheduleId = 4
    /\ DOMAIN schedules = {1, 3}
    /\ schedules[1].scheduled_time < now
    /\ ~schedules[1].taken

\* The prescription a schedule row belongs to, through its medicine.
PrescriptionOf(row) ==
    IF row.medicine_id \in DOMAIN medicines
    THEN medicines[row.medicine_id].prescription_id
    ELSE 0

\* C5 as stated: once a row is taken, no operation removes it or changes
\* its scheduled time.
C5_TakenRowStays ==
    [][\A i \in DOMAIN schedules :
          schedules[i].taken =>
              /\ i \in DOMAIN schedules'
              /\ schedules'[i].scheduled_time
                    = schedules[i].scheduled_time]_vars

\* C5: once a row is taken, no schedule edit, schedule delete, regenerate,
\* mark or device confirmation removes it or changes its scheduled time;
\* the row goes only when its owner deletes the prescription it belongs to,
\* and then with that prescription.
C5_TakenRowStaysUnlessPrescriptionDeleted ==
    [][\A i \in DOMAIN schedules :
          schedules[i].taken =>
              \/ /\ i \in DOMAIN schedules'
                 /\ schedules'[i].scheduled_time
                       = schedules[i].scheduled_time
              \/ /\ response'.op = "delete_prescription"
                 /\ response'.code = 200
                 /\ PrescriptionOf(schedules[i]) \in DOMAIN prescriptions
                 /\ PrescriptionOf(schedules[i]) \notin DOMAIN prescriptions'
                 /\ prescriptions[PrescriptionOf(schedules[i])].user_id
                       = schedules[i].user_id]_vars

\* A taken row has just been refused an edit.
C5_Witness ==
    /\ response.op = "update_schedule"
    /\ response.code = 400
    /\ \E i \in DOMAIN schedules : schedules[i].taken

\* C6: an edit or a delete of a taken row by its owner is refused with 400
\* and the row stays, with its scheduled time, taken, taken_at and skipped
\* as they were.
C6_EditOfTakenRowRefused ==
    [][\A u \in Users, i \in ScheduleIds :
          (OwnSchedule(i, u) /\ schedules[i].taken) =>
              /\ \A t \in EditTimeInputs :
                    update_schedule(u, i, t) =>
                        /\ response'.code = 400
                        /\ i \in DOMAIN schedules'
                        /\ schedules'[i] = schedules[i]
              /\ delete_schedule(u, i) =>
                    /\ response'.code = 400
                    /\ i \in DOMAIN schedules'
                    /\ schedules'[i] = schedules[i]]_vars

\* A delete has just been refused, and a taken row is there.
C6_Witness ==
    /\ response.op = "delete_schedule"
    /\ response.code = 400
    /\ \E i \in DOMAIN schedules : schedules[i].taken

\* C7: no row is taken and skipped at once.
C7_TakenAndSkippedExclusive ==
    \A i \in DOMAIN schedules : ~(schedules[i].taken /\ schedules[i].skipped)

\* C8: a row has a taken_at stamp exactly when it is taken.
C8_TakenAtIffTaken ==
    \A i \in DOMAIN schedules :
        (schedules[i].taken_at # None) <=> schedules[i].taken

\* A row is taken and stamped, another is not.
C8_Witness ==
    /\ \E i \in DOMAIN schedules :
          schedules[i].taken /\ schedules[i].taken_at = Some(now)
    /\ \E i \in DOMAIN schedules :
          ~schedules[i].taken /\ schedules[i].taken_at = None

\* The entry e is in the list seq (entries are told apart by their uid).
InSeq(e, seq) == \E i \in 1..Len(seq) : seq[i].uid = e.uid

\* The place of the entry with this uid in seq.
Pos(uid, seq) == CHOOSE i \in 1..Len(seq) : seq[i].uid = uid

\* C9: with one polling consumer per device, no command is returned by two
\* drains, and drains return commands in the order their enqueues committed.
C9_AtMostOnceInOrder ==
    \A d \in DeviceIds :
        \A i, j \in 1..Len(delivered[d]) :
            i < j =>
                /\ delivered[d][i].uid # delivered[d][j].uid
                /\ Pos(delivered[d][i].uid, accepted[d])
                      < Pos(delivered[d][j].uid, accepted[d])

\* An accepted command of device d that no drain has returned and that is
\* in no stored list and in no list a request in flight has read.
Lost(d, e) ==
    /\ InSeq(e, accepted[d])
    /\ ~InSeq(e, delivered[d])
    /\ ~InSeq(e, Pending(d))
    /\ \A r \in inflight :
          r.device_id = d => ~InSeq(e, PendingOf(r.state_data))

\* C10: a command whose enqueue commits between a drain's read and that
\* drain's clearing write is not returned by that drain and is cleared with
\* the rest; once a command is lost this way no later drain returns it.
C10_EnqueueBetweenReadAndClearIsLost ==
    [][/\ \A r \in inflight :
             (r.kind = "drain" /\ get_device_commands_commit(r)) =>
                 \A i \in 1..Len(Pending(r.device_id)) :
                     LET e == Pending(r.device_id)[i] IN
                     ~InSeq(e, PendingOf(r.state_data)) =>
                         /\ ~InSeq(e, response'.body)
                         /\ ~InSeq(e, Pending(r.device_id)')
                         /\ ~InSeq(e, delivered[r.device_id]) =>
                               ~InSeq(e, delivered'[r.device_id])
       /\ \A d \in DeviceIds :
             \A i \in 1..Len(accepted[d]) :
                 Lost(d, accepted[d][i]) => Lost(d, accepted[d][i])'
      ]_vars

\* Four requests: a heartbeat, two enqueues and a drain.  The drain has
\* returned the first command, and the second, accepted while the drain was
\* in flight, is lost.
C10_Witness ==
    /\ requests = 4
    /\ nextUid = 3
    /\ inflight = {}
    /\ response.op = "get_device_commands"
    /\ Len(response.body) = 1
    /\ \E d \in DeviceIds :
          /\ Len(accepted[d]) = 2
          /\ delivered[d] = response.body
          /\ Lost(d, accepted[d][2])

\* C15: mark_taken and mark_skipped answer 404 and change no row when the
\* schedule does not exist or belongs to another user; otherwise mark_taken
\* sets taken and taken_at = now, and mark_skipped sets skipped, on that row
\* and on no other.
C15_MarkOwnRowOrNotFound ==
    [][\A u \in Users, i \in ScheduleIds :
          LET own == i \in DOMAIN schedules /\ schedules[i].user_id = u IN
          /\ (response'.op = "mark_taken" /\ mark_taken(u, i)) =>
                IF own
                THEN /\ response'.code = 200
                     /\ schedules' = [schedules EXCEPT
                                        ![i].taken = TRUE,
                                        ![i].taken_at = Some(now)]
                ELSE /\ response'.code = 404
                     /\ schedules' = schedules
          /\ (response'.op = "mark_skipped" /\ mark_skipped(u, i)) =>
                IF own
                THEN /\ response'.code = 200
                     /\ schedules' = [schedules EXCEPT ![i].skipped = TRUE]
                ELSE /\ response'.code = 404
                     /\ schedules' = schedules]_vars

\* A mark_taken has been answered 404 while rows of both users are there.
C15_Witness ==
    /\ response.op = "mark_taken"
    /\ response.code = 404
    /\ \A u \in Users : \E i \in DOMAIN schedules : schedules[i].user_id = u

\* C16: an upload or a regenerate that fails leaves the prescriptions, the
\* medicines and the schedules as they were before the request.
C16_FailedMaterializationChangesNothing ==
    [][(/\ response'.op \in {"upload_prescription", "regenerate_schedules"}
        /\ response'.code \notin {200, 201}) =>
           /\ prescriptions' = prescriptions
           /\ medicines' = medicines
           /\ schedules' = schedules]_vars

\* A regenerate has failed for a user whose medicine has a row that a
\* regenerate deletes.
C16_Witness ==
    /\ response.op = "regenerate_schedules"
    /\ response.code = 500
    /\ \E i \in DOMAIN schedules :
          /\ schedules[i].scheduled_time >= now
          /\ ~schedules[i].taken

\* A member that is absent, null or blank.
Lacking(member) == member.kind # "text" \/ Strip(member.text) = <<>>

\* The record has no medicine list, an empty one, or a medicine without a
\* name, a dosage or a frequency.
LacksRequired(data) ==
    \/ data.medicines = None
    \/ Value(data.medicines) = <<>>
    \/ \E i \in 1..Len(Value(data.medicines)) :
          LET medicine == Value(data.medicines)[i] IN
          \/ Lacking(medicine.name)
          \/ Lacking(medicine.dosage)
          \/ Lacking(medicine.frequency)

\* The record has no medicine list, an empty one, or a medicine whose name
\* is absent, null, empty, 'null' or 'none'.
LacksName(data) ==
    \/ data.medicines = None
    \/ Value(data.medicines) = <<>>
    \/ \E i \in 1..Len(Value(data.medicines)) :
          LET name == Value(data.medicines)[i].name IN
          \/ name.kind # "text"
          \/ Lower(name.text) \in {<<>>, <<"n","u","l","l">>, <<"n","o","n","e">>}

\* C17 as stated: a record without a medicine list, or with a medicine
\* lacking a name, a dosage or a frequency, is answered 400 and nothing of
\* it is stored.
C17_IncompleteRecordRejected ==
    [][\A u \in Users, d \in UpstreamRecords, f \in CommitFaults :
          (/\ response'.op = "upload_prescription"
           /\ LacksRequired(d)
           /\ upload_prescription(u, d, f)) =>
              /\ response'.code = 400
              /\ UNCHANGED <<prescriptions, medicines, schedules>>]_vars

\* C17: a record without a medicine list, or with a medicine lacking a
\* name, is answered 400 and nothing of it is stored; a medicine whose
\* dosage or frequency is absent or blank is not refused for it, and is
\* stored with 'As directed' in that field.
C17_NamelessRecordRejected ==
    [][response'.op = "upload_prescription" =>
          /\ response'.code = 400 =>
                UNCHANGED <<prescriptions, medicines, schedules>>
          /\ \A u \in Users, d \in UpstreamRecords, f \in CommitFaults :
                (response'.code # 400 /\ upload_prescription(u, d, f)) =>
                    /\ ~LacksName(d)
                    /\ response'.code = 201 =>
                          \A i \in 1..Len(Value(d.medicines)) :
                              LET medicine == Value(d.medicines)[i]
                                  row == medicines'[nextMedicineId + i - 1]
                              IN  /\ row.name = medicine.name.text
                                  /\ Lacking(medicine.dosage) =>
                                        row.dosage = AsDirected
                                  /\ Lacking(medicine.frequency) =>
                                        row.frequency = AsDirected]_vars

\* A medicine stored with 'As directed' for its missing dosage is there, and
\* an upload has just been refused.
C17_Witness ==
    /\ response.op = "upload_prescription"
    /\ response.code = 400
    /\ \E m \in DOMAIN medicines : medicines[m].dosage = AsDirected

\* online iff last_seen is set and less than the timeout before the clock.
DerivedOnline(device, clock) ==
    /\ device.last_seen # None
    /\ clock - Value(device.last_seen) < DeviceTimeout

\* C11: the monitor answers, and the device list stores, online exactly
\* when last_seen is set and now - last_seen < 300 s; a last_seen exactly
\* 300 s old, or none, gives offline, on both read paths.
C11_OnlineIffSeenWithinTimeout ==
    [][/\ \A u \in Users, d \in DeviceIds :
             (/\ response'.op = "monitor_device"
              /\ response'.code = 200
              /\ monitor_device(u, d)) =>
                 response'.body = <<DerivedOnline(iot_devices[d], now)>>
       /\ \A u \in Users :
             (response'.op = "devices" /\ devices(u)) =>
                 \A d \in DOMAIN iot_devices :
                     iot_devices[d].user_id = u =>
                         iot_devices'[d].is_online
                            = DerivedOnline(iot_devices[d], now)]_vars

\* The monitor has answered offline for a device seen exactly 300 s ago.
C11_Witness ==
    /\ response.op = "monitor_device"
    /\ response.code = 200
    /\ response.body = <<FALSE>>
    /\ DOMAIN iot_devices # {}
    /\ \A d \in DOMAIN iot_devices :
          iot_devices[d].last_seen = Some(now - DeviceTimeout)

\* C12: after an accepted registration, heartbeat or status update of a
\* device at time t, the device is derived online at every time from t to
\* less than 300 s later (here at t and at t + 299 s).
C12_OnlineAfterAcceptedUpdate ==
    [][\A d \in DeviceIds :
          (/\ requests' # requests
           /\ response'.code = 200
           /\ \/ \E n \in NameInputs, u \in Usernames, ip \in IpInputs :
                    register_device(d, n, u, ip)
              \/ \E u \in Usernames : device_heartbeat(d, u)
              \/ device_status(d, StatusIp)) =>
              \A later \in {0, DeviceTimeout - 1} :
                  DerivedOnline(iot_devices'[d], now + later)]_vars

\* C13: a heartbeat with a device id and a known user succeeds; the record
\* of that device id is there afterwards with last_seen = now and
\* is_online, whoever owned it before, and no other record is added or
\* changed.
C13_HeartbeatUpsertsByDeviceId ==
    [][\A d \in DeviceIds, u \in Users :
          (response'.op = "device_heartbeat" /\ device_heartbeat(d, u)) =>
              /\ response'.code = 200
              /\ d \in DOMAIN iot_devices'
              /\ iot_devices'[d].last_seen = Some(now)
              /\ iot_devices'[d].is_online
              /\ \A e \in DOMAIN iot_devices' \ {d} :
                    /\ e \in DOMAIN iot_devices
                    /\ iot_devices'[e] = iot_devices[e]]_vars

\* C14: a status update or a telemetry update for a device id that has no
\* record is answered 404 and leaves the registry as it was.
C14_UnknownDeviceNotFound ==
    [][\A d \in DeviceIds \ DOMAIN iot_devices :
          /\ (response'.op = "device_status"
                 /\ device_status(d, StatusIp)) =>
                /\ response'.code = 404
                /\ iot_devices' = iot_devices
          /\ \A u \in Usernames, t \in TelemetryInputs :
                (response'.op = "update_device_state"
                    /\ update_device_state(d, u, t)) =>
                   /\ response'.code = 404
                   /\ iot_devices' = iot_devices]_vars

\* A status update has been answered 404 while another device is registered.
C14_Witness ==
    /\ response.op = "device_status"
    /\ response.code = 404
    /\ DOMAIN iot_devices # {}
    /\ DeviceIds \ DOMAIN iot_devices # {}

\* The number written by the digits of a text, or default without digits.
Count(text, default) ==
    LET digits == SelectSeq(text, IsDecimal)
    IN  IF digits = <<>> THEN default ELSE ParseInt(digits)

HasUnit(text, unit) == Contains(Lower(text), unit)

\* C19: the days of a duration are its number times 1 when the text
\* holds "day", else times 7 when it holds "week", else times 30 when it
\* holds "month": "3 days" 3, "2 weeks" 14, "1 month" 30; without digits
\* "days" 7, "week" 7, "month" 30; the empty text, a missing duration and a
\* text without unit give 7.
C19_DurationByUnitKeyword ==
    (result.op = "parse_duration" /\ ~result.raised) =>
        LET days == result.value
            given == call.duration
        IN  /\ given = Some(ThreeDays) => days = 3
            /\ given = Some(TwoWeeks) => days = 14
            /\ given = Some(OneMonth) => days = 30
            /\ given = Some(DaysOnly) => days = 7
            /\ given = Some(WeekOnly) => days = 7
            /\ given = Some(MonthOnly) => days = 30
            /\ given \in {None, Some(<<>>)} => days = 7
            /\ given # None =>
                  LET text == Value(given)
                  IN  days =
                        IF HasUnit(text, <<"d","a","y">>)
                        THEN Count(text, 7)
                        ELSE IF HasUnit(text, <<"w","e","e","k">>)
                        THEN 7 * Count(text, 1)
                        ELSE IF HasUnit(text, <<"m","o","n","t","h">>)
                        THEN 30 * Count(text, 1)
                        ELSE 7

\* "1 week 3 days" has been read by its first unit in order, day: 13 days.
C19_Witness ==
    /\ result.op = "parse_duration"
    /\ ~result.raised
    /\ call.duration = Some(WeekAndDays)
    /\ result.value = 13

\* The table phrase at position i occurs in the lower-cased text.
Occurs(i, text) == Contains(Lower(text), timing_map[i].pattern)

\* C20: the times of a frequency text are those of the first table phrase,
\* in table order, that occurs in the lower-cased text ("twice daily":
\* 09:00 and 21:00), and the single time 09:00 when none occurs; they
\* depend on the text alone.
C20_FirstPhraseInTableOrder ==
    result.op = "extract_timing_from_frequency" =>
        LET times == result.value
            text == call.frequency
        IN  /\ text = TwiceDaily => times = <<T0900, T2100>>
            /\ (\A i \in 1..Len(timing_map) : ~Occurs(i, text)) =>
                  times = <<T0900>>
            /\ \A i \in 1..Len(timing_map) :
                  (/\ Occurs(i, text)
                   /\ \A j \in 1..(i - 1) : ~Occurs(j, text)) =>
                      times = timing_map[i].times

\* "twice daily at night" has given the times of "twice daily", which is
\* before "night" in the table.
C20_Witness ==
    /\ result.op = "extract_timing_from_frequency"
    /\ call.frequency = TwiceDailyAtNight
    /\ result.value = <<T0900, T2100>>

\* A time of day "HH:MM" as seconds after midnight.
TimeOfDay(time_str) ==
    LET hm == SplitTime(time_str)
    IN  hm[1] * SecondsPerHour + hm[2] * SecondsPerMinute

\* The rows of a sequence that are scheduled at the time at.
RowsAt(rows, at) == {k \in 1..Len(rows) : rows[k].scheduled_time = at}

\* C18: the rows made for a medicine are one for every day offset below
\* its duration in days and every time of day of its frequency, scheduled
\* at the start date's midnight plus the offset plus the time, not taken
\* and not skipped, and no others; "twice daily" for "2 days" from a day
\* gives that day 09:00 and 21:00 and the next day 09:00 and 21:00.
C18_OneRowPerDayAndTime ==
    (result.op = "create_schedules_for_medicine" /\ ~result.raised) =>
        LET rows == result.value
            times == extract_timing_from_frequency(call.frequency)
            duration_days == DurationDays(CallMedicine)
            midnight == call.anchor * SecondsPerDay
            At(d, j) == midnight + d * SecondsPerDay + TimeOfDay(times[j])
        IN  /\ Len(rows) = duration_days * Len(times)
            /\ \A d \in 0..(duration_days - 1), j \in 1..Len(times) :
                  Cardinality(RowsAt(rows, At(d, j))) = 1
            /\ \A k \in 1..Len(rows) :
                  /\ ~rows[k].taken
                  /\ ~rows[k].skipped
                  /\ \E d \in 0..(duration_days - 1), j \in 1..Len(times) :
                        rows[k].scheduled_time = At(d, j)
            /\ (call.frequency = TwiceDaily /\ call.duration = Some(TwoDays)) =>
                  [k \in 1..Len(rows) |-> rows[k].scheduled_time - midnight]
                     = << 9 * SecondsPerHour, 21 * SecondsPerHour,
                          SecondsPerDay + 9 * SecondsPerHour,
                          SecondsPerDay + 21 * SecondsPerHour >>

\* "twice daily" for "2 days" from day 1 has given four rows.
C18_Witness ==
    /\ result.op = "create_schedules_for_medicine"
    /\ ~result.raised
    /\ call.frequency = TwiceDaily
    /\ call.duration = Some(TwoDays)
    /\ call.anchor = 1
    /\ Len(result.value) = 4

\* The first maximal run of digits of a text.
FirstNumberText(text) ==
    LET starts == {i \in 1..Len(text) : IsDecimal(text[i])}
        first == CHOOSE i \in starts : \A j \in starts : i <= j
        ends == {i \in first..Len(text) :
                    \A j \in first..i : IsDecimal(text[j])}
        last == CHOOSE i \in ends : \A j \in ends : i >= j
    IN  SubSeq(text, first, last)

\* C28: the days of a duration text with digits are the first number in
\* the text times the scale of its unit, whatever digits come later: "1.5
\* days" and "1 week 3 days" count 1.
C28_MagnitudeIsFirstNumber ==
    (/\ result.op = "parse_duration"
     /\ ~result.raised
     /\ call.duration # None
     /\ \E i \in 1..Len(Value(call.duration)) :
           IsDecimal(Value(call.duration)[i])) =>
        LET text == Value(call.duration)
            magnitude == ParseInt(FirstNumberText(text))
        IN  result.value =
               IF HasUnit(text, <<"d","a","y">>) THEN magnitude
               ELSE IF HasUnit(text, <<"w","e","e","k">>) THEN 7 * magnitude
               ELSE IF HasUnit(text, <<"m","o","n","t","h">>) THEN 30 * magnitude
               ELSE 7

\* C29: the days of a duration are at least 1 for every text, "0 days"
\* included, and the rows made for a medicine are at least one.
C29_AtLeastOneDay ==
    /\ (result.op = "parse_duration" /\ ~result.raised) =>
          result.value >= 1
    /\ (result.op = "create_schedules_for_medicine" /\ ~result.raised) =>
          Len(result.value) >= 1

\* C25: an edit or a delete of a row that is taken or skipped, by its
\* owner, is refused and the row stays as it was.
C25_EditOnlyWhilePending ==
    [][\A u \in Users, i \in ScheduleIds :
          (/\ i \in DOMAIN schedules
           /\ schedules[i].user_id = u
           /\ schedules[i].taken \/ schedules[i].skipped) =>
              /\ \A t \in EditTimeInputs :
                    (response'.op = "update_schedule"
                        /\ update_schedule(u, i, t)) =>
                        /\ response'.code # 200
                        /\ i \in DOMAIN schedules'
                        /\ schedules'[i] = schedules[i]
              /\ (response'.op = "delete_schedule"
                     /\ delete_schedule(u, i)) =>
                    /\ response'.code # 200
                    /\ i \in DOMAIN schedules'
                    /\ schedules'[i] = schedules[i]]_vars

\* C26: a dispense report for an existing schedule id is answered 200 and
\* sets taken and taken_at = now on that row and nothing else, and the step
\* is the same for every device id sent with it, none included; for an
\* unknown schedule id it is answered 404 and nothing changes.
C26_DispenseByScheduleIdAlone ==
    [][\A i \in ScheduleIds, device \in DispenseDeviceInputs :
          (/\ response'.op = "mark_schedule_dispensed"
           /\ mark_schedule_dispensed(i, device)) =>
              /\ i \in DOMAIN schedules =>
                    /\ response'.code = 200
                    /\ schedules' =
                          [schedules EXCEPT ![i].taken = TRUE,
                                            ![i].taken_at = Some(now)]
              /\ i \notin DOMAIN schedules =>
                    /\ response'.code = 404
                    /\ schedules' = schedules
              /\ UNCHANGED <<prescriptions, medicines>>
              /\ \A other \in DispenseDeviceInputs :
                    mark_schedule_dispensed(i, other)]_vars

\* A dispense report has marked a row of user 2 taken now, and no device
\* is registered to anyone.
C26_Witness ==
    /\ response.op = "mark_schedule_dispensed"
    /\ response.code = 200
    /\ iot_devices = <<>>
    /\ \E i \in DOMAIN schedules :
          /\ schedules[i].user_id = 2
          /\ schedules[i].taken
          /\ schedules[i].taken_at = Some(now)

C30_RegenerateLeavesNoDuplicateSlot ==
    [][response'.op = "regenerate_schedules" =>
          \A i, j \in DOMAIN schedules' :
              (/\ schedules'[i].medicine_id = schedules'[j].medicine_id
               /\ schedules'[i].user_id = schedules'[j].user_id
               /\ schedules'[i].scheduled_time = schedules'[j].scheduled_time)
                  => i = j]_vars

\* The device is known, online and has an address.
Reachable(d) ==
    /\ d \in DOMAIN iot_devices
    /\ iot_devices[d].is_online
    /\ iot_devices[d].ip_address # None

\* C21: a notification or a dispense command makes at most one request to
\* the device, and one when the device is available; when that request
\* fails in transport the device is offline afterwards and the answer is a
\* failure carrying the transport error text.
C21_OneAttemptThenOffline ==
    [][\A d \in DeviceIds, o \in TransportOutcomes :
          (\/ response'.op = "notify_device" /\ notify_device(d, o)
           \/ response'.op = "dispense_medicine" /\ dispense_medicine(d, o))
          =>
              /\ posts' = IF Reachable(d) THEN posts + 1 ELSE posts
              /\ (Reachable(d) /\ o.kind = "transport") =>
                    /\ ~iot_devices'[d].is_online
                    /\ response'.code = 500
                    /\ response'.body = <<FALSE, o.error>>]_vars

\* A dispense command has failed with "timed out" after one request, and
\* a device with an address is offline.
C21_Witness ==
    /\ response.op = "dispense_medicine"
    /\ response.code = 500
    /\ response.body = <<FALSE, "timed out">>
    /\ posts = 1
    /\ \E d \in DOMAIN iot_devices :
          /\ ~iot_devices[d].is_online
          /\ iot_devices[d].ip_address # None

(***************************************************************************)
(* Compartments and the device's schedule list.                            *)
(***************************************************************************)
ValidCompartments == {Some(k) : k \in 1..CompartmentSlots}

\* The pending rows of a user due within the window whose medicine was
\* last given one of the compartments 1..3.
DueRows(user_id) ==
    {i \in DOMAIN schedules :
        /\ schedules[i].user_id = user_id
        /\ ~schedules[i].taken
        /\ ~schedules[i].skipped
        /\ schedules[i].scheduled_time >= now
        /\ schedules[i].scheduled_time
              <= now + DeviceWindowDays * SecondsPerDay
        /\ assigned[schedules[i].medicine_id] \in ValidCompartments}

\* C22: GET /device/schedules for a known user answers with exactly that
\* user's pending doses (neither taken nor skipped) due between now and
\* now + 7 days whose medicine has a compartment in 1..3, ordered by
\* scheduled_time, and nothing else.
C22_ListsExactlyDueRows ==
    [][\A u \in Users :
          (/\ response'.op = "get_device_schedules"
           /\ requests' # requests
           /\ get_device_schedules(u))
          => /\ response'.code = 200
             /\ {response'.body[k] : k \in DOMAIN response'.body}
                  = DueRows(u)
             /\ \A j, k \in DOMAIN response'.body :
                   j < k =>
                     schedules[response'.body[j]].scheduled_time
                        <= schedules[response'.body[k]].scheduled_time]_vars

\* C23: the compartment number of every medicine is one of 0, 1, 2, 3
\* after any sequence of auto-assign and update-compartment requests.
C23_CompartmentInRange ==
    \A m \in DOMAIN assigned :
        assigned[m] # None => Value(assigned[m]) \in 0..CompartmentSlots

\* C24: auto-assign on a prescription with more than three active
\* medicines does not answer success.
C24_TooManyMedicinesFails ==
    [][\A u \in Users, p \in PrescriptionIds :
          (/\ response'.op = "auto_assign_slots"
           /\ requests' # requests
           /\ p \in DOMAIN prescriptions
           /\ prescriptions[p].user_id = u
           /\ Cardinality(ActiveMedicines(p)) > CompartmentSlots
           /\ auto_assign_slots(u, p))
          => response'.code # 200]_vars

\* C24 as the handler behaves: with n > 3 active medicines the request
\* answers success and reports 3 assigned and n - 3 unassigned.
C24_TooManyMedicinesPartial ==
    [][\A u \in Users, p \in PrescriptionIds :
          (/\ response'.op = "auto_assign_slots"
           /\ requests' # requests
           /\ p \in DOMAIN prescriptions
           /\ prescriptions[p].user_id = u
           /\ Cardinality(ActiveMedicines(p)) > CompartmentSlots
           /\ auto_assign_slots(u, p))
          => /\ response'.code = 200
             /\ response'.body =
                  <<CompartmentSlots,
                    Cardinality(ActiveMedicines(p)) - CompartmentSlots>>]_vars

C24_Witness ==
    /\ response.op = "auto_assign_slots"
    /\ response.code = 200
    /\ response.body = <<CompartmentSlots, 1>>
    /\ Cardinality(DOMAIN medicines) > CompartmentSlots

(***************************************************************************)
(* Concurrent enqueues, ownership of doses and of command queues.          *)
(***************************************************************************)
\* C31: two enqueue requests for one device that overlap both take effect:
\* when an enqueue commits, every command another enqueue committed to the
\* device since this one read the row is still pending, next to its own.
C31_OverlappingEnqueuesBothKept ==
    [][\A r \in inflight :
          (r.kind = "enqueue" /\ send_device_command_commit(r))
          => \A e \in {Pending(r.device_id)[k] :
                          k \in DOMAIN Pending(r.device_id)} :
                ~InSeq(e, PendingOf(r.state_data))
                => /\ InSeq(e, Pending(r.device_id)')
                   /\ InSeq(Value(r.entry), Pending(r.device_id)')]_vars

\* The dose rows that belong to users other than user_id.
RowsOfOthers(table, user_id) ==
    {table[i] : i \in {k \in DOMAIN table : table[k].user_id # user_id}}

\* C32: a mark_taken, mark_skipped, update_schedule, delete_schedule,
\* regenerate or delete_prescription request of a user leaves the dose rows
\* of every other user exactly as they were, whatever ids it names.
C32_OtherUsersRowsUntouched ==
    [][\A u \in Users :
          (/\ requests' # requests
           /\ \/ /\ response'.op = "mark_taken"
                 /\ \E i \in ScheduleIds : mark_taken(u, i)
              \/ /\ response'.op = "mark_skipped"
                 /\ \E i \in ScheduleIds : mark_skipped(u, i)
              \/ /\ response'.op = "update_schedule"
                 /\ \E i \in ScheduleIds, t \in EditTimeInputs :
                       update_schedule(u, i, t)
              \/ /\ response'.op = "delete_schedule"
                 /\ \E i \in ScheduleIds : delete_schedule(u, i)
              \/ /\ response'.op = "regenerate_schedules"
                 /\ \E m \in MedicineIds, d \in StartDateInputs,
                       f \in CommitFaults :
                       regenerate_schedules(u, m, d, f)
              \/ /\ response'.op = "delete_prescription"
                 /\ \E p \in PrescriptionIds : delete_prescription(u, p))
          => RowsOfOthers(schedules', u) = RowsOfOthers(schedules, u)]_vars

\* A regenerate has succeeded while rows of both users are there.
C32_Witness ==
    /\ response.op = "regenerate_schedules"
    /\ response.code = 200
    /\ \A u \in Users : \E i \in DOMAIN schedules : schedules[i].user_id = u

\* The stored value of a telemetry member of a device (None when the
\* column is NULL or has no such member).
StoredMember(device, key) ==
    IF device.hardware_state = None THEN None
    ELSE Get(Value(device.hardware_state), key, None)

\* C33: an enqueue or a drain leaves every telemetry member of every
\* device's hardware_state (servo_angles, ultrasonic_distance,
\* medicine_detected, led_state, buzzer_state, current_operation,
\* last_dispense_time, timestamp) with the value it had before.
C33_TelemetryKeptByEnqueueAndDrain ==
    [][response'.op \in {"send_device_command", "get_device_commands"}
       => \A d \in DOMAIN iot_devices, k \in DOMAIN TelemetryKeys :
             StoredMember(iot_devices'[d], TelemetryKeys[k])
                = StoredMember(iot_devices[d], TelemetryKeys[k])]_vars

\* Every dose row names a stored medicine and every medicine a stored
\* prescription.
ReferencesResolve ==
    /\ \A i \in DOMAIN schedules :
          schedules[i].medicine_id \in DOMAIN medicines
    /\ \A m \in DOMAIN medicines :
          medicines[m].prescription_id \in DOMAIN prescriptions

\* C34: in every reachable state every dose row refers to a stored medicine
\* and every medicine to a stored prescription; after a successful
\* delete_prescription no medicine of that prescription and no dose row of
\* its medicines is left, and the medicines and rows of the other
\* prescriptions are as before.
C34_ReferentialIntegrity ==
    /\ []ReferencesResolve
    /\ [][\A u \in Users, p \in PrescriptionIds :
             (/\ response'.op = "delete_prescription"
              /\ response'.code = 200
              /\ p \in DOMAIN prescriptions
              /\ delete_prescription(u, p))
             => LET gone == {m \in DOMAIN medicines :
                                medicines[m].prescription_id = p}
                    kept == {i \in DOMAIN schedules :
                                schedules[i].medicine_id \notin gone}
                IN  /\ p \notin DOMAIN prescriptions'
                    /\ DOMAIN medicines' = DOMAIN medicines \ gone
                    /\ \A m \in DOMAIN medicines' :
                          medicines'[m] = medicines[m]
                    /\ DOMAIN schedules' = kept
                    /\ \A i \in kept : schedules'[i] = schedules[i]
                    /\ \A q \in DOMAIN prescriptions' :
                          prescriptions'[q] = prescriptions[q]]_vars

\* A prescription has been deleted and the rows of another prescription
\* are left.
C34_Witness ==
    /\ response.op = "delete_prescription"
    /\ response.code = 200
    /\ Cardinality(DOMAIN prescriptions) = 1
    /\ nextPrescriptionId = 3
    /\ schedules # <<>>
    /\ ReferencesResolve

\* C35: in every reachable state the user of every dose row is the owner
\* of the prescription its medicine belongs to.
C35_DoseOwnerIsPrescriptionOwner ==
    \A i \in DOMAIN schedules :
        /\ schedules[i].medicine_id \in DOMAIN medicines
        /\ medicines[schedules[i].medicine_id].prescription_id
              \in DOMAIN prescriptions
        /\ schedules[i].user_id =
              prescriptions[medicines[schedules[i].medicine_id]
                               .prescription_id].user_id

\* A regenerate has created rows while prescriptions of both users, each
\* with dose rows, are stored.
C35_Witness ==
    /\ response.op = "regenerate_schedules"
    /\ response.code = 200
    /\ \A u \in Users :
          \E p \in DOMAIN prescriptions, i \in DOMAIN schedules :
             /\ prescriptions[p].user_id = u
             /\ schedules[i].medicine_id \in DOMAIN medicines
             /\ medicines[schedules[i].medicine_id].prescription_id = p

\* C36: an enqueue that names a device which is not a device of the caller
\* is answered 404 and changes no device row; a successful enqueue or a
\* drain on one device leaves the pending commands of every other device
\* as they were.
C36_QueuesIsolatedAndOwnerChecked ==
    [][/\ \A u \in Users, d \in DeviceIds, c \in CommandInputs :
             (/\ response'.op = "send_device_command"
              /\ requests' # requests
              /\ c.command # ""
              /\ send_device_command(u, d, c))
             => IF d \in DOMAIN iot_devices /\ iot_devices[d].user_id = u
                THEN /\ response'.code = 200
                     /\ \A e \in DeviceIds \ {d} : Pending(e)' = Pending(e)
                ELSE /\ response'.code = 404
                     /\ iot_devices' = iot_devices
       /\ \A d \in DeviceIds, u \in Usernames :
             (/\ response'.op = "get_device_commands"
              /\ requests' # requests
              /\ get_device_commands(d, u))
             => \A e \in DeviceIds \ {d} : Pending(e)' = Pending(e)]_vars

\* Both devices are registered, one has a pending command, and an enqueue
\* has been answered 404: it named a device of another user.
C36_Witness ==
    /\ response.op = "send_device_command"
    /\ response.code = 404
    /\ DeviceIds \subseteq DOMAIN iot_devices
    /\ \E d \in DeviceIds : Pending(d) # <<>>

\* The compartment_number column of a stored Medicine row (None when the
\* row has no such column).
StoredCompartment(medicine) ==
    IF "compartment_number" \in DOMAIN medicine
    THEN Some(medicine.compartment_number)
    ELSE None

\* C37: right after a successful auto_assign_slots the active medicines of
\* the prescription, in ascending id order, hold compartments 1, 2, 3 for
\* the first three and 0 for the others, so that no two of them share a
\* non-zero compartment, and the medicines of other prescriptions are as
\* before.
C37_AutoAssignStoresSlotsInOrder ==
    [][\A u \in Users, p \in PrescriptionIds :
          (/\ response'.op = "auto_assign_slots"
           /\ response'.code = 200
           /\ requests' # requests
           /\ p \in DOMAIN prescriptions
           /\ prescriptions[p].user_id = u
           /\ auto_assign_slots(u, p))
          => /\ \A m \in ActiveMedicines(p) :
                   LET below == Cardinality({k \in ActiveMedicines(p) :
                                               k < m})
                   IN  StoredCompartment(medicines'[m])
                          = Some(IF below < CompartmentSlots
                                 THEN below + 1 ELSE 0)
             /\ \A m, k \in ActiveMedicines(p) :
                   (/\ m # k
                    /\ StoredCompartment(medicines'[m]) # None
                    /\ StoredCompartment(medicines'[m]) # Some(0))
                   => StoredCompartment(medicines'[m])
                         # StoredCompartment(medicines'[k])
             /\ \A m \in DOMAIN medicines \ ActiveMedicines(p) :
                   medicines'[m] = medicines[m]]_vars

\* A notify or dispense step for device d with transport outcome o.
Outbound(d, o) ==
    \/ response'.op = "notify_device" /\ notify_device(d, o)
    \/ response'.op = "dispense_medicine" /\ dispense_medicine(d, o)

\* An outbound call for a device that is missing, stored offline or without
\* an address answers "Device not available", contacts nobody and changes
\* no device row; a call for any other device contacts it.
ContactOnlyWhenAvailable ==
    \A d \in DeviceIds, o \in TransportOutcomes :
        (requests' # requests /\ Outbound(d, o)) =>
            IF Reachable(d)
            THEN posts' = posts + 1
            ELSE /\ posts' = posts
                 /\ iot_devices' = iot_devices
                 /\ response'.code = 500
                 /\ response'.body = <<FALSE, "Device not available">>

\* The requests after which a stored device that was offline is online.
SetsOnline(ops) ==
    \A d \in DOMAIN iot_devices :
        (/\ ~iot_devices[d].is_online
         /\ iot_devices'[d].is_online) => response'.op \in ops

\* C38: a notify or dispense contacts the device only when its row exists,
\* is stored online and has an address, and otherwise answers "Device not
\* available" without a request and without a change to any device row; a
\* device put offline is set online again (and so contacted again) only by
\* a registration, a heartbeat or a status update.
C38_OfflineUntilDeviceReports ==
    [][/\ ContactOnlyWhenAvailable
       /\ SetsOnline({"register_device", "device_heartbeat",
                      "device_status"})]_vars

\* C38 as the program behaves: the devices page sets a device online too.
C38_OfflineUntilReportOrListing ==
    [][/\ ContactOnlyWhenAvailable
       /\ SetsOnline({"register_device", "device_heartbeat",
                      "device_status", "devices"})]_vars

\* After one request to a device that failed in transport, a further call
\* has been answered "Device not available" without a second request.
C38_Witness ==
    /\ response.op \in {"notify_device", "dispense_medicine"}
    /\ response.body = <<FALSE, "Device not available">>
    /\ posts = 1
    /\ \E d \in DOMAIN iot_devices :
          /\ ~iot_devices[d].is_online
          /\ iot_devices[d].ip_address # None

====
